---- MODULE Spec2Model ----
(***************************************************************************)
(* The JSON codec of src/native/json/modjson.c: the single-pass decoder    *)
(* json_load_impl (loads/load) and the serializer serialize_obj            *)
(* (dumps/dump).  Input texts are sequences of bytes (0..255); one action  *)
(* is one pass through the body of the decoder's main loop.                *)
(***************************************************************************)
EXTENDS Integers, Sequences, FiniteSets, TLC

(* ------------------------------------------------------------------ *)
(* Bytes                                                              *)
(* ------------------------------------------------------------------ *)

\* The character codes of the bytes the source names as C character literals.
Ch ==
  (" " :> 32) @@ ("\"" :> 34) @@ ("+" :> 43) @@ ("," :> 44) @@ ("-" :> 45) @@
  ("." :> 46) @@ ("/" :> 47) @@ ("0" :> 48) @@ ("1" :> 49) @@ ("2" :> 50) @@
  ("3" :> 51) @@ ("4" :> 52) @@ ("5" :> 53) @@ ("6" :> 54) @@ ("7" :> 55) @@
  ("8" :> 56) @@ ("9" :> 57) @@ (":" :> 58) @@ ("A" :> 65) @@ ("E" :> 69) @@
  ("F" :> 70) @@ ("[" :> 91) @@ ("\\" :> 92) @@ ("]" :> 93) @@ ("a" :> 97) @@
  ("b" :> 98) @@ ("c" :> 99) @@ ("d" :> 100) @@ ("e" :> 101) @@ ("f" :> 102) @@
  ("l" :> 108) @@ ("n" :> 110) @@ ("r" :> 114) @@ ("s" :> 115) @@ ("t" :> 116) @@
  ("u" :> 117) @@ ("x" :> 120) @@ ("z" :> 122) @@ ("{" :> 123) @@ ("}" :> 125) @@
  ("\t" :> 9) @@ ("\n" :> 10) @@ ("\f" :> 12) @@ ("\r" :> 13) @@
  ("I" :> 73) @@ ("N" :> 78) @@ ("i" :> 105) @@ ("y" :> 121)

\* The byte sequence of a text given as a tuple of one-character strings.
Txt(s) == [i \in 1..Len(s) |-> Ch[s[i]]]

\* #define S_EOF (0): the value of s.cur that stands for end-of-input.
S_EOF == 0

\* unichar_isdigit
unichar_isdigit(b) == b >= Ch["0"] /\ b <= Ch["9"]

\* unichar_isspace: space, \t, \n, \v, \f, \r
unichar_isspace(b) == b = 32 \/ (b >= 9 /\ b <= 13)

RECURSIVE BitOr(_, _)
\* a | b on non-negative integers
BitOr(a, b) ==
  IF a = 0 THEN b
  ELSE IF b = 0 THEN a
  ELSE 2 * BitOr(a \div 2, b \div 2) + (IF a % 2 = 1 \/ b % 2 = 1 THEN 1 ELSE 0)

\* vstr_add_char: the UTF-8 encoding of code point c (c < 0x110000)
Utf8(c) ==
  IF c < 128 THEN <<c>>
  ELSE IF c < 2048 THEN <<192 + (c \div 64), 128 + (c % 64)>>
  ELSE IF c < 65536 THEN
    <<224 + (c \div 4096), 128 + ((c \div 64) % 64), 128 + (c % 64)>>
  ELSE <<240 + (c \div 262144), 128 + ((c \div 4096) % 64),
         128 + ((c \div 64) % 64), 128 + (c % 64)>>

(* ------------------------------------------------------------------ *)
(* Values of the host object model                                    *)
(* ------------------------------------------------------------------ *)

\* MP_OBJ_NULL: "no object" (not the None object)
MP_OBJ_NULL == [t |-> "NULL"]

mp_const_none == [t |-> "none"]

mp_const_true == [t |-> "bool", b |-> TRUE]

mp_const_false == [t |-> "bool", b |-> FALSE]

IntObj(n) == [t |-> "int", n |-> n]

\* An int object beyond the range of a C int: its value is q * 2^32 + n with
\* q # 0 and -2^31 <= n < 2^31, so that n is its low 32 bits read as an int.
LongObj(q, n) == [t |-> "int", n |-> n, q |-> q]

\* The multiple of 2^32 in the value of an int object.
HighPart(o) == IF "q" \in DOMAIN o THEN o.q ELSE 0

\* A float is the decimal m * 10^e, m without trailing zeros (0.0 is m = 0, e = 0).
FloatObj(m, e) == [t |-> "float", m |-> m, e |-> e]

\* A str object holds the bytes of the string buffer.
StrObj(bytes) == [t |-> "str", s |-> bytes]

\* A reference to the container object heap[id].
Ref(id) == [t |-> "ref", id |-> id]

\* A list is [t |-> "list", items |-> <<v1, ...>>]; a dict is
\* [t |-> "dict", items |-> << <<k1, v1>>, ... >>], keys pairwise different.
ListObj(items) == [t |-> "list", items |-> items]

DictObj(items) == [t |-> "dict", items |-> items]

\* A dict store that leaves the value of an existing key as it is.
mp_obj_dict_store_keeps_first(items, k, v) ==
  IF \E i \in 1..Len(items) : items[i][1] = k THEN items ELSE Append(items, <<k, v>>)

\* mp_obj_dict_store: the value of an existing key is replaced in place, a new
\* key is added.
mp_obj_dict_store(items, k, v) ==
  IF \E i \in 1..Len(items) : items[i][1] = k
  THEN [i \in 1..Len(items) |-> IF items[i][1] = k THEN <<k, v>> ELSE items[i]]
  ELSE Append(items, <<k, v>>)

RECURSIVE Resolve(_, _)
\* The value an object denotes once the containers it refers to are read from
\* the heap.
Resolve(h, v) ==
  IF v.t # "ref" THEN v
  ELSE LET c == h[v.id] IN
       IF c.t = "list"
       THEN ListObj([i \in 1..Len(c.items) |-> Resolve(h, c.items[i])])
       ELSE DictObj([i \in 1..Len(c.items) |->
                       <<c.items[i][1], Resolve(h, c.items[i][2])>>])

(* ------------------------------------------------------------------ *)
(* Number parsing (mp_parse_num_integer, mp_parse_num_float)          *)
(* ------------------------------------------------------------------ *)

RECURSIVE DigitsValue(_)
\* The value of a sequence of decimal digit bytes.
DigitsValue(ds) ==
  IF ds = <<>> THEN 0
  ELSE 10 * DigitsValue(SubSeq(ds, 1, Len(ds) - 1)) + (ds[Len(ds)] - 48)

AllDigits(ds) == \A i \in 1..Len(ds) : unichar_isdigit(ds[i])

IsSign(b) == b = Ch["+"] \/ b = Ch["-"]

\* The literal without its optional leading sign.
Unsigned(lit) ==
  IF lit # <<>> /\ IsSign(lit[1]) THEN SubSeq(lit, 2, Len(lit)) ELSE lit

SignOf(lit) == IF lit # <<>> /\ lit[1] = Ch["-"] THEN -1 ELSE 1

\* mp_parse_num_integer(buf, len, 10, NULL): an optional sign and at least one
\* digit, nothing else; otherwise ValueError.
ParseInt(lit) ==
  LET ds == Unsigned(lit) IN
  IF ds # <<>> /\ AllDigits(ds)
  THEN [ok |-> TRUE, v |-> IntObj(SignOf(lit) * DigitsValue(ds))]
  ELSE [ok |-> FALSE, v |-> MP_OBJ_NULL]

RECURSIVE Normalize(_, _)
\* m * 10^e with the trailing zeros of m moved into e.
Normalize(m, e) ==
  IF m = 0 THEN FloatObj(0, 0)
  ELSE IF m % 10 = 0 THEN Normalize(m \div 10, e + 1)
  ELSE FloatObj(m, e)

\* The index of the first byte of lit that is in set S, or Len(lit) + 1.
FirstIn(lit, S) ==
  IF \E i \in 1..Len(lit) : lit[i] \in S
  THEN CHOOSE i \in 1..Len(lit) : lit[i] \in S /\ \A j \in 1..(i - 1) : lit[j] \notin S
  ELSE Len(lit) + 1

\* mp_parse_num_float(buf, len, false, NULL): [sign] digits [. digits]
\* [(e|E) [sign] digits], with a digit in the mantissa and, after e, in the
\* exponent; otherwise ValueError.
ParseFloat(lit) ==
  LET body == Unsigned(lit)
      ePos == FirstIn(body, {Ch["e"], Ch["E"]})
      mant == SubSeq(body, 1, ePos - 1)
      expo == SubSeq(body, ePos + 1, Len(body))
      dPos == FirstIn(mant, {Ch["."]})
      ip   == SubSeq(mant, 1, dPos - 1)
      fp   == SubSeq(mant, dPos + 1, Len(mant))
      eds  == Unsigned(expo)
      okM  == AllDigits(ip) /\ AllDigits(fp) /\ Len(ip) + Len(fp) > 0
      okE  == ePos > Len(body) \/ (eds # <<>> /\ AllDigits(eds))
      ex   == IF ePos > Len(body) THEN 0 ELSE SignOf(expo) * DigitsValue(eds)
  IN IF okM /\ okE
     THEN [ok |-> TRUE,
           v |-> Normalize(SignOf(lit) * DigitsValue(ip \o fp), ex - Len(fp))]
     ELSE [ok |-> FALSE, v |-> MP_OBJ_NULL]

(* ------------------------------------------------------------------ *)
(* The decoder json_load_impl as a function on its local state         *)
(* ------------------------------------------------------------------ *)

\* A decoder state d is a record of the locals of json_load_impl:
\*   input, pos   the bytes of the source and the index of the byte held in cur
\*   cur          s.cur
\*   vstr         the string buffer
\*   heap         the list and dict objects created so far
\*   stack, stack_top, stack_key
\*   pc           "main" (the for (;;) loop), "success" (label success),
\*                "done" (returned), "fail" (raised)
\*   result, exc  the returned value, the raised exception type

\* S_END(s)
S_END(d) == d.cur = S_EOF

\* S_NEXT(s) / json_stream_next: read one byte; when the source has no byte
\* left, cur becomes S_EOF.
S_NEXT(d) ==
  [d EXCEPT !.pos = d.pos + 1,
            !.cur = IF d.pos + 1 <= Len(d.input) THEN d.input[d.pos + 1] ELSE S_EOF]

\* The locals at the top of the for (;;) loop, after the first S_NEXT(s).
InitDec(text) ==
  S_NEXT([input |-> text, pos |-> 0, cur |-> 0, vstr |-> <<>>, heap |-> <<>>,
          stack |-> <<>>, stack_top |-> MP_OBJ_NULL, stack_key |-> MP_OBJ_NULL,
          pc |-> "main", result |-> MP_OBJ_NULL, exc |-> "none"])

\* MP_DEFINE_EXCEPTION(JSONDecodeError, ValueError): the exception types the
\* module raises or defines, each with its base type.
ExceptionBase ==
  [JSONDecodeError |-> "ValueError", ValueError |-> "Exception",
   TypeError |-> "Exception", Exception |-> "BaseException"]

RECURSIVE IsSubclass(_, _)
\* An exception of type raised is caught by a handler for type handled.
IsSubclass(raised, handled) ==
  \/ raised = handled
  \/ raised \in DOMAIN ExceptionBase /\ IsSubclass(ExceptionBase[raised], handled)

\* fail: mp_raise_ValueError("syntax error in JSON")
Fail(d) == [d EXCEPT !.pc = "fail", !.exc = "ValueError"]

RECURSIVE MatchRest(_, _, _)
\* S_CUR(s) == w[i] && S_NEXT(s) == w[i+1] && ... with C's short-circuit &&:
\* the first letter is compared against the byte already in cur, each later
\* one against the byte S_NEXT returns; reading stops at the first mismatch.
MatchRest(d, w, i) ==
  IF d.cur # w[i] THEN [ok |-> FALSE, d |-> d]
  ELSE IF i = Len(w) THEN [ok |-> TRUE, d |-> d]
  ELSE MatchRest(S_NEXT(d), w, i + 1)

\* case 'n' / 'f' / 't': d is the state after the S_NEXT of the main loop,
\* rest the letters after the first one.
Keyword(d, rest, obj) ==
  LET m == MatchRest(d, rest, 1) IN
  IF m.ok THEN [ok |-> TRUE, d |-> S_NEXT(m.d), next |-> obj]
  ELSE [ok |-> FALSE, d |-> m.d, next |-> MP_OBJ_NULL]

\* A hex digit read without the | 0x20: the letters are taken as upper case.
HexNibble_upper_case(b) ==
  LET c == (b - 48) % 256 IN
  IF c > 9 THEN (c - 7) % 256 ELSE c

\* (b | 0x20) - '0' in a byte, then c -= 'a' - ('9' + 1) when c > 9
HexNibble(b) ==
  LET c == (BitOr(b, 32) - 48) % 256 IN
  IF c > 9 THEN (c - 39) % 256 ELSE c

RECURSIVE HexLoop(_, _, _)
\* for (i = 0; i < 4; i++) { c = (S_NEXT(s) | 0x20) - '0'; ...;
\*                           num = (num << 4) | c; }
HexLoop(d, num, i) ==
  IF i = 4 THEN [d |-> d, num |-> num]
  ELSE LET d1 == S_NEXT(d) IN
       HexLoop(d1, BitOr(num * 16, HexNibble(d1.cur)), i + 1)

\* The switch on the byte after a backslash: the byte added to the buffer.
EscapeByte(c) ==
  CASE c = Ch["b"] -> 8
    [] c = Ch["f"] -> 12
    [] c = Ch["n"] -> 10
    [] c = Ch["r"] -> 13
    [] c = Ch["t"] -> 9
    [] OTHER -> c

\* One iteration of the string loop, entered with a byte in cur that is
\* neither the end of the input nor the closing quote: the byte, or the byte
\* or character its escape stands for, goes to the buffer; str_cont: S_NEXT(s).
StrIter(d) ==
  IF d.cur = Ch["\\"] THEN
    LET d1 == S_NEXT(d) IN
    IF d1.cur = Ch["u"] THEN
      LET h == HexLoop(d1, 0, 0) IN
      S_NEXT([h.d EXCEPT !.vstr = h.d.vstr \o Utf8(h.num)])
    ELSE S_NEXT([d1 EXCEPT !.vstr = Append(d1.vstr, EscapeByte(d1.cur))])
  ELSE S_NEXT([d EXCEPT !.vstr = Append(d.vstr, d.cur)])

RECURSIVE StrLoop(_)
\* for (; !S_END(s) && S_CUR(s) != '"';) { ... }
StrLoop(d) ==
  IF S_END(d) \/ d.cur = Ch["\""] THEN d ELSE StrLoop(StrIter(d))

\* After the string loop: fail when it stopped at S_END, else read past the
\* quote and make the string object.
StringEnd(e) ==
  IF S_END(e) THEN [ok |-> FALSE, d |-> e, next |-> MP_OBJ_NULL]
  ELSE [ok |-> TRUE, d |-> S_NEXT(e), next |-> StrObj(e.vstr)]

\* case '"': scan the string literal; fail when the loop stopped at S_END.
String(d) == StringEnd(StrLoop([d EXCEPT !.vstr = <<>>]))

\* One iteration of the number loop: vstr_add_byte(&vstr, cur); cur =
\* S_CUR(s); then S_NEXT(s) when cur belongs to a number, else break.
NumIter(d, cur, flt) ==
  LET d1 == [d EXCEPT !.vstr = Append(d.vstr, cur)]
      c  == d1.cur
  IN IF c = Ch["."] \/ c = Ch["E"] \/ c = Ch["e"]
       THEN [more |-> TRUE, d |-> S_NEXT(d1), cur |-> c, flt |-> TRUE]
     ELSE IF c = Ch["+"] \/ c = Ch["-"] \/ unichar_isdigit(c)
       THEN [more |-> TRUE, d |-> S_NEXT(d1), cur |-> c, flt |-> flt]
     ELSE [more |-> FALSE, d |-> d1, cur |-> c, flt |-> flt]

RECURSIVE NumLoop(_, _, _)
\* for (;;) { vstr_add_byte(&vstr, cur); cur = S_CUR(s); ...; S_NEXT(s); }
NumLoop(d, cur, flt) ==
  LET r == NumIter(d, cur, flt) IN
  IF r.more THEN NumLoop(r.d, r.cur, r.flt) ELSE [d |-> r.d, flt |-> r.flt]

\* A number whose variant follows its value: an integral value is an integer.
Number_by_value(d, cur) ==
  LET n == NumLoop([d EXCEPT !.vstr = <<>>], cur, FALSE)
      p == IF n.flt THEN ParseFloat(n.d.vstr) ELSE ParseInt(n.d.vstr)
  IN [ok |-> p.ok, d |-> n.d,
      next |-> IF p.ok /\ p.v.t = "float" /\ p.v.e >= 0 /\ p.v.e < 6
               THEN IntObj(p.v.m * (10 ^ p.v.e)) ELSE p.v]

\* After the number loop: parse the literal as a float or as an integer; the
\* parser raises ValueError on a literal it does not accept.
NumberEnd(n) ==
  LET p == IF n.flt THEN ParseFloat(n.d.vstr) ELSE ParseInt(n.d.vstr)
  IN [ok |-> p.ok, d |-> n.d, next |-> p.v]

\* case '-', '0'..'9': accumulate the literal, then parse it.
Number(d, cur) == NumberEnd(NumLoop([d EXCEPT !.vstr = <<>>], cur, FALSE))

\* Lines 195-225: make next the top-level value, or attach it to the current
\* container; with enter, descend into it.
Attach(d, next, enter) ==
  IF d.stack_top = MP_OBJ_NULL THEN
    [d EXCEPT !.stack_top = next, !.pc = IF enter THEN "main" ELSE "success"]
  ELSE
    LET top  == d.heap[d.stack_top.id]
        key  == top.t = "dict" /\ d.stack_key = MP_OBJ_NULL
        top1 == IF top.t = "list" THEN ListObj(Append(top.items, next))
                ELSE IF key THEN top
                ELSE DictObj(mp_obj_dict_store(top.items, d.stack_key, next))
        d1   == [d EXCEPT !.heap[d.stack_top.id] = top1,
                          !.stack_key = IF top.t = "list" THEN d.stack_key
                                        ELSE IF key THEN next
                                        ELSE MP_OBJ_NULL]
    IN IF key /\ enter THEN Fail(d1)
       ELSE IF enter THEN [d1 EXCEPT !.stack = Append(d.stack, d.stack_top),
                                     !.stack_top = next]
       ELSE d1

\* case '[' / '{': mp_obj_new_list(0, NULL) / mp_obj_new_dict(0), enter = true
Open(d, type) ==
  LET id == Len(d.heap) + 1
      d1 == [d EXCEPT !.heap = Append(d.heap, [t |-> type, items |-> <<>>])]
  IN Attach(d1, Ref(id), TRUE)

\* A closer that makes the parent current and leaves its entry on the stack.
Close_keeps_entry(d) ==
  IF d.stack_top = MP_OBJ_NULL THEN Fail(d)
  ELSE IF Len(d.stack) = 0 THEN [d EXCEPT !.pc = "success"]
  ELSE [d EXCEPT !.stack_top = d.stack[Len(d.stack)]]

\* A closer that ends the value whenever a container is open.
Close_ends_value(d) ==
  IF d.stack_top = MP_OBJ_NULL THEN Fail(d) ELSE [d EXCEPT !.pc = "success"]

\* case '}' / ']'
Close(d) ==
  IF d.stack_top = MP_OBJ_NULL THEN Fail(d)
  ELSE IF Len(d.stack) = 0 THEN [d EXCEPT !.pc = "success"]
  ELSE [d EXCEPT !.stack = SubSeq(d.stack, 1, Len(d.stack) - 1),
                 !.stack_top = d.stack[Len(d.stack)]]

\* A leaf token: attach its value, or fail.
Leaf(r) == IF r.ok THEN Attach(r.d, r.next, FALSE) ELSE Fail(r.d)

\* The separator cases without the colon.
IsSeparator_no_colon(b) ==
  b \in {Ch[","], Ch[" "], Ch["\t"], Ch["\n"], Ch["\r"]}

\* case ',': case ':': case ' ': case '\t': case '\n': case '\r':
IsSeparator(b) ==
  b \in {Ch[","], Ch[":"], Ch[" "], Ch["\t"], Ch["\n"], Ch["\r"]}

IsNumberStart(b) == b = Ch["-"] \/ unichar_isdigit(b)

IsOpener(b) == b = Ch["["] \/ b = Ch["{"]

IsCloser(b) == b = Ch["]"] \/ b = Ch["}"]

IsKeywordStart(b) == b \in {Ch["n"], Ch["f"], Ch["t"]}

\* An end-of-input check that ends the decode with what has been built.
MainEOF_returns(d) ==
  IF d.stack_top = MP_OBJ_NULL THEN Fail(d)
  ELSE [d EXCEPT !.pc = "success", !.stack = <<>>,
                 !.stack_top = IF d.stack = <<>> THEN d.stack_top ELSE d.stack[1]]

\* if (S_END(s)) goto fail; at the top of the main loop
MainEOF(d) == Fail(d)

\* One pass through the body of the for (;;) loop (lines 71-225).
MainStep(d) ==
  IF S_END(d) THEN MainEOF(d)
  ELSE
    LET cur == d.cur
        n   == S_NEXT(d)
    IN CASE IsSeparator(cur) -> n
         [] cur = Ch["n"] -> Leaf(Keyword(n, Txt(<<"u", "l", "l">>), mp_const_none))
         [] cur = Ch["f"] -> Leaf(Keyword(n, Txt(<<"a", "l", "s", "e">>), mp_const_false))
         [] cur = Ch["t"] -> Leaf(Keyword(n, Txt(<<"r", "u", "e">>), mp_const_true))
         [] cur = Ch["\""] -> Leaf(String(n))
         [] IsNumberStart(cur) -> Leaf(Number(n, cur))
         [] cur = Ch["["] -> Open(n, "list")
         [] cur = Ch["{"] -> Open(n, "dict")
         [] IsCloser(cur) -> Close(n)
         [] OTHER -> Fail(n)

\* A body of the trailing-whitespace loop that does not read the next byte.
SpaceIter_stays(d) == d

\* The body of the trailing-whitespace loop: S_NEXT(s);
SpaceIter(d) == S_NEXT(d)

RECURSIVE SkipSpace(_)
\* while (unichar_isspace(S_CUR(s))) S_NEXT(s);
SkipSpace(d) == IF unichar_isspace(d.cur) THEN SkipSpace(SpaceIter(d)) ELSE d

\* Lines 227-238: the trailing-data check and the return.
SuccessStep(d) ==
  LET e == SkipSpace(d) IN
  IF ~S_END(e) THEN Fail(e)
  ELSE IF e.stack_top = MP_OBJ_NULL \/ Len(e.stack) # 0 THEN Fail(e)
  ELSE [e EXCEPT !.pc = "done", !.result = Resolve(e.heap, e.stack_top)]

RECURSIVE RunDec(_)
\* The decoder run to its end.
RunDec(d) ==
  IF d.pc = "main" THEN RunDec(MainStep(d))
  ELSE IF d.pc = "success" THEN RunDec(SuccessStep(d))
  ELSE d

\* json_loads: the outcome of decoding the text.
json_loads(text) == RunDec(InitDec(text))

(* ------------------------------------------------------------------ *)
(* The encoder: escape_string, add_indent, key_compare, serialize_obj  *)
(* ------------------------------------------------------------------ *)

\* A float that isinf() or isnan() is true of: k is "inf", "-inf" or "nan".
NonFinite(k) == [t |-> "nonfinite", k |-> k]

TupleObj(items) == [t |-> "tuple", items |-> items]

\* An object of a type the serializer has no branch for.
BytesObj(bytes) == [t |-> "bytes", s |-> bytes]

\* The lower-case hexadecimal digit of n < 16, as printf's %x writes it.
HexDigit(n) == IF n < 10 THEN 48 + n ELSE 87 + n

\* An escaping that also writes every byte from 0x7F on as \u00XX.
EscapeChar_ascii_only(c) ==
  IF c = Ch["\""] THEN Txt(<<"\\", "\"">>)
  ELSE IF c = Ch["\\"] THEN Txt(<<"\\", "\\">>)
  ELSE IF c < 32 \/ c >= 127
  THEN Txt(<<"\\", "u", "0", "0">>) \o <<HexDigit(c \div 16), HexDigit(c % 16)>>
  ELSE <<c>>

\* The translation of one byte of a string (the switch of escape_string).
EscapeChar(c) ==
  CASE c = Ch["\""] -> Txt(<<"\\", "\"">>)
    [] c = Ch["\\"] -> Txt(<<"\\", "\\">>)
    [] c = 10 -> Txt(<<"\\", "n">>)
    [] c = 13 -> Txt(<<"\\", "r">>)
    [] c = 9 -> Txt(<<"\\", "t">>)
    [] c = 8 -> Txt(<<"\\", "b">>)
    [] c = 12 -> Txt(<<"\\", "f">>)
    [] OTHER -> IF c < 32
                THEN Txt(<<"\\", "u", "0", "0">>) \o <<HexDigit(c \div 16), HexDigit(c % 16)>>
                ELSE <<c>>

RECURSIVE EscapeBody(_)
\* The translations of the bytes of str, in order.
EscapeBody(str) ==
  IF str = <<>> THEN <<>> ELSE EscapeChar(Head(str)) \o EscapeBody(Tail(str))

\* escape_string: the bytes added to the output for the string str.
escape_string(str) == Txt(<<"\"">>) \o EscapeBody(str) \o Txt(<<"\"">>)

\* An indentation that does not grow with the nesting level.
add_indent_flat(indent, level) ==
  IF indent > 0 THEN <<Ch["\n"]>> \o [i \in 1..indent |-> Ch[" "]] ELSE <<>>

\* add_indent: a newline and indent * level spaces, when indent > 0.
add_indent(indent, level) ==
  IF indent > 0 THEN <<10>> \o [i \in 1..(indent * level) |-> 32] ELSE <<>>

RECURSIVE NatText(_)
\* The decimal digits of n >= 0.
NatText(n) == IF n < 10 THEN <<48 + n>> ELSE NatText(n \div 10) \o <<48 + (n % 10)>>

\* snprintf(buf, sizeof(buf), "%ld", (long)val)
IntText(n) == IF n < 0 THEN Txt(<<"-">>) \o NatText(-n) ELSE NatText(n)

\* snprintf(buf, sizeof(buf), "%.15g", val) for the decimal m * 10^e of at most
\* 15 digits: fixed notation without trailing zeros or a bare point when the
\* decimal exponent x is in -4..14, d.ddde+xx otherwise.
FloatText(m, e) ==
  LET ds   == NatText(IF m < 0 THEN -m ELSE m)
      nd   == Len(ds)
      x    == nd - 1 + e
      sign == IF m < 0 THEN Txt(<<"-">>) ELSE <<>>
      ax   == IF x < 0 THEN -x ELSE x
      fixed ==
        IF e >= 0 THEN ds \o [i \in 1..e |-> 48]
        ELSE IF nd > -e
        THEN SubSeq(ds, 1, nd + e) \o Txt(<<".">>) \o SubSeq(ds, nd + e + 1, nd)
        ELSE Txt(<<"0", ".">>) \o [i \in 1..(-e - nd) |-> 48] \o ds
      sci ==
        <<ds[1]>> \o (IF nd > 1 THEN Txt(<<".">>) \o SubSeq(ds, 2, nd) ELSE <<>>)
          \o Txt(<<"e">>) \o (IF x < 0 THEN Txt(<<"-">>) ELSE Txt(<<"+">>))
          \o (IF ax < 10 THEN Txt(<<"0">>) ELSE <<>>) \o NatText(ax)
  IN IF m = 0 THEN Txt(<<"0">>)
     ELSE sign \o (IF x < -4 \/ x >= 15 THEN sci ELSE fixed)

RECURSIVE memcmp(_, _, _)
\* memcmp(a, b, n): the sign of the first difference, bytes compared unsigned.
memcmp(a, b, n) ==
  IF n = 0 THEN 0
  ELSE IF a[1] # b[1] THEN (IF a[1] < b[1] THEN -1 ELSE 1)
  ELSE memcmp(Tail(a), Tail(b), n - 1)

\* A comparison that takes the bytes for signed chars.
key_compare_signed(a, b) ==
  LET min_len == IF Len(a.s) < Len(b.s) THEN Len(a.s) ELSE Len(b.s)
      sc(x)   == IF x >= 128 THEN x - 256 ELSE x
      diff    == {i \in 1..min_len : a.s[i] # b.s[i]}
      first   == CHOOSE i \in diff : \A j \in diff : i <= j
  IN IF diff # {} THEN sc(a.s[first]) - sc(b.s[first]) ELSE Len(a.s) - Len(b.s)

\* key_compare on two str keys
key_compare(a, b) ==
  LET min_len == IF Len(a.s) < Len(b.s) THEN Len(a.s) ELSE Len(b.s)
      cmp     == memcmp(a.s, b.s, min_len)
  IN IF cmp # 0 THEN cmp ELSE Len(a.s) - Len(b.s)

RECURSIVE BubblePass(_, _, _)
\* The inner loop of the sort: for j from j to last, swap keys[j] and
\* keys[j + 1] when they compare > 0.
BubblePass(keys, j, last) ==
  IF j > last THEN keys
  ELSE IF key_compare(keys[j], keys[j + 1]) > 0
  THEN BubblePass([keys EXCEPT ![j] = keys[j + 1], ![j + 1] = keys[j]], j + 1, last)
  ELSE BubblePass(keys, j + 1, last)

RECURSIVE BubbleSort(_, _)
\* The outer loop of the sort, i counted from 0 as in the source.
BubbleSort(keys, i) ==
  IF i >= Len(keys) - 1 THEN keys
  ELSE BubbleSort(BubblePass(keys, 1, Len(keys) - i - 1), i + 1)

\* The members of a dict in the order of the slots of its hash table.  The
\* table is the host's; its order is not the serializer's to choose, and slots
\* says how it relates to the order in which the model lists the members:
\* "fwd" the same, "rev" the reverse.
TableOrder(items, slots) ==
  IF slots = "rev" THEN [i \in 1..Len(items) |-> items[Len(items) + 1 - i]]
  ELSE items

\* mp_obj_dict_get(obj, key)
mp_obj_dict_get(items, key) ==
  items[CHOOSE i \in 1..Len(items) : items[i][1] = key][2]

Emitted(text) == [ok |-> TRUE, text |-> text, exc |-> "none"]

Raises(exc) == [ok |-> FALSE, text |-> <<>>, exc |-> exc]

\* A key loop that leaves out the keys that are not strings.
CollectKeys_skips(table) ==
  LET strs == {i \in 1..Len(table) : table[i][1].t = "str"}
      RECURSIVE Pick(_)
      Pick(i) == IF i > Len(table) THEN <<>>
                 ELSE (IF i \in strs THEN <<table[i][1]>> ELSE <<>>) \o Pick(i + 1)
  IN [ok |-> TRUE, keys |-> Pick(1)]

\* A key loop that takes only a string of at most one byte for a string.
CollectKeys_short_only(table) ==
  [ok |-> \A i \in 1..Len(table) : table[i][1].t = "str" /\ Len(table[i][1].s) <= 1,
   keys |-> [i \in 1..Len(table) |-> table[i][1]]]

\* Lines 376-387: the keys of the filled slots of the table, in slot order;
\* a key that is not a str raises TypeError("keys must be strings").
CollectKeys(table) ==
  [ok |-> \A i \in 1..Len(table) : table[i][1].t = "str",
   keys |-> [i \in 1..Len(table) |-> table[i][1]]]

\* A serializer that writes a float that is not finite as a bare token.
OutOfRangeFloat_emits(obj) ==
  Emitted(IF obj.k = "nan" THEN Txt(<<"N", "a", "N">>)
          ELSE IF obj.k = "inf" THEN Txt(<<"I", "n", "f", "i", "n", "i", "t", "y">>)
          ELSE Txt(<<"-", "I", "n", "f", "i", "n", "i", "t", "y">>))

\* if (isinf(val) || isnan(val)) mp_raise_ValueError("Out of range float
\* values are not JSON compliant")
OutOfRangeFloat(obj) == Raises("ValueError")

\* The comma, and for indent <= 0 the space, before every item but the first;
\* then for indent > 0 the item's indentation.
ItemLead(i, indent, level) ==
  (IF i > 1 THEN Txt(<<",">>) \o (IF indent <= 0 THEN Txt(<<" ">>) ELSE <<>>) ELSE <<>>)
    \o (IF indent > 0 THEN add_indent(indent, level + 1) ELSE <<>>)

RECURSIVE serialize_obj(_, _, _, _, _)
RECURSIVE SerializeItems(_, _, _, _, _, _, _)
RECURSIVE SerializeMembers(_, _, _, _, _, _, _, _)
\* The loop over the items of a list or tuple, from item i on; acc is the
\* output so far.
SerializeItems(items, i, acc, indent, level, sort_keys, slots) ==
  IF i > Len(items) THEN Emitted(acc)
  ELSE LET r == serialize_obj(items[i], indent, level + 1, sort_keys, slots) IN
       IF ~r.ok THEN r
       ELSE SerializeItems(items, i + 1, acc \o ItemLead(i, indent, level) \o r.text,
                           indent, level, sort_keys, slots)

\* The loop over the keys of a dict (lines 403-423), from key i on.
SerializeMembers(items, keys, i, acc, indent, level, sort_keys, slots) ==
  IF i > Len(keys) THEN Emitted(acc)
  ELSE LET r == serialize_obj(mp_obj_dict_get(items, keys[i]), indent, level + 1,
                              sort_keys, slots)
       IN IF ~r.ok THEN r
          ELSE SerializeMembers(items, keys, i + 1,
                                acc \o ItemLead(i, indent, level)
                                    \o escape_string(keys[i].s) \o Txt(<<":", " ">>)
                                    \o r.text,
                                indent, level, sort_keys, slots)

\* serialize_obj: the text added to the output for obj, or the exception.
serialize_obj(obj, indent, level, sort_keys, slots) ==
  CASE obj = mp_const_none -> Emitted(Txt(<<"n", "u", "l", "l">>))
    [] obj = mp_const_true -> Emitted(Txt(<<"t", "r", "u", "e">>))
    [] obj = mp_const_false -> Emitted(Txt(<<"f", "a", "l", "s", "e">>))
    [] obj.t = "str" -> Emitted(escape_string(obj.s))
    [] obj.t = "int" -> Emitted(IntText(obj.n))
    [] obj.t = "nonfinite" -> OutOfRangeFloat(obj)
    [] obj.t = "float" -> Emitted(FloatText(obj.m, obj.e))
    [] obj.t \in {"list", "tuple"} ->
         LET r == SerializeItems(obj.items, 1, Txt(<<"[">>), indent, level,
                                 sort_keys, slots)
         IN IF ~r.ok THEN r
            ELSE Emitted(r.text
                           \o (IF Len(obj.items) > 0 /\ indent > 0
                               THEN add_indent(indent, level) ELSE <<>>)
                           \o Txt(<<"]">>))
    [] obj.t = "dict" ->
         LET table == TableOrder(obj.items, slots)
             got   == CollectKeys(table)
             keys  == got.keys
         IN IF Len(table) = 0 THEN Emitted(Txt(<<"{", "}">>))
            ELSE IF ~got.ok THEN Raises("TypeError")
            ELSE LET sorted == IF sort_keys THEN BubbleSort(keys, 0) ELSE keys
                     r == SerializeMembers(obj.items, sorted, 1, Txt(<<"{">>), indent,
                                           level, sort_keys, slots)
                 IN IF ~r.ok THEN r
                    ELSE Emitted(r.text \o add_indent(indent, level) \o Txt(<<"}">>))
    [] OTHER -> Raises("TypeError")

\* int indent = mp_obj_get_int(o): mp_obj_get_int returns the value as an
\* mp_int_t of 64 bits, and the conversion to int keeps its low 32 bits.
int_of_mp_int(o) == o.n

\* The indent of json_dumps and json_dump: 0 for None, else the int the
\* argument converts to, with a negative one replaced by 0.
IndentArg(arg) ==
  IF arg = mp_const_none THEN 0
  ELSE LET indent == int_of_mp_int(arg) IN IF indent < 0 THEN 0 ELSE indent

\* json_dumps(obj, indent=arg, sort_keys=sort_keys)
json_dumps(obj, arg, sort_keys, slots) ==
  serialize_obj(obj, IndentArg(arg), 0, sort_keys, slots)

\* A json_dump that passes false for sort_keys.
json_dump_unsorted(obj, stream, arg, sort_keys, slots) ==
  LET r == serialize_obj(obj, IndentArg(arg), 0, FALSE, slots) IN
  IF r.ok THEN [exc |-> "none", stream |-> stream \o r.text]
  ELSE [exc |-> r.exc, stream |-> stream]

\* json_dump(obj, stream, indent=arg, sort_keys=sort_keys): serialize into
\* the call's vstr, then write the whole vstr to the stream; an exception of
\* serialize_obj leaves the function before the write.
json_dump(obj, stream, arg, sort_keys, slots) ==
  LET r == serialize_obj(obj, IndentArg(arg), 0, sort_keys, slots) IN
  IF r.ok THEN [exc |-> "none", stream |-> stream \o r.text]
  ELSE [exc |-> r.exc, stream |-> stream]

(* ------------------------------------------------------------------ *)
(* Input texts                                                        *)
(* ------------------------------------------------------------------ *)

\* The longest concatenation of tokens drawn as an input text.
MaxChunks == 3

\* The longest concatenation of pieces drawn as the body of a string literal.
MaxStrChunks == 4

RECURSIVE Concats(_, _)
\* The concatenations of at most n members of the set of byte sequences S.
Concats(S, n) ==
  IF n = 0 THEN {<<>>}
  ELSE LET prev == Concats(S, n - 1) IN
       prev \cup {p \o c : p \in prev, c \in S}

\* Tokens and stray bytes of a JSON text.
Chunks ==
  {Txt(<<"[">>), Txt(<<"]">>), Txt(<<"{">>), Txt(<<"}">>), Txt(<<",">>),
   Txt(<<" ">>), Txt(<<"1">>), Txt(<<"\"", "a", "\"">>),
   Txt(<<"t", "r", "u", "e">>), <<0>>}

TokenTexts == Concats(Chunks, MaxChunks)

\* Pieces of the inside of a string literal.
StrChunks ==
  {Txt(<<"\\", "u">>), Txt(<<"\\">>), Txt(<<"\"">>), Txt(<<"0", "0">>),
   Txt(<<"4", "1">>), Txt(<<"z">>)}

StringTexts == {Txt(<<"\"">>) \o b : b \in Concats(StrChunks, MaxStrChunks)}

\* The bytes tried after a backslash: the nine the grammar knows and others.
EscapeBytes ==
  {Ch["\""], Ch["\\"], Ch["/"], Ch["b"], Ch["f"], Ch["n"], Ch["r"], Ch["t"],
   Ch["u"], Ch["a"], Ch["x"], Ch["0"], Ch[" "], Ch["E"], 200}

EscapeTexts ==
  {<<Ch["\""], Ch["\\"], c>> \o t : c \in EscapeBytes,
                                   t \in {<<>>, Txt(<<"\"">>), Txt(<<"z", "\"">>)}}

Keywords ==
  {Txt(<<"n", "u", "l", "l">>), Txt(<<"t", "r", "u", "e">>),
   Txt(<<"f", "a", "l", "s", "e">>)}

\* Keywords cut short, complete, and followed by a stray letter.
KeywordTexts ==
  UNION {{SubSeq(k, 1, n) \o t : n \in 1..Len(k), t \in {<<>>, Txt(<<"x">>)}} :
           k \in Keywords}

\* Texts of the documentation's examples and of the error conditions it lists.
ExampleTexts ==
  {Txt(<<"{", "1", ":", " ", "2", "}">>),
   Txt(<<"[", "1", ",", " ", "2">>),
   Txt(<<"t", "r", "u", "e", " ", "f", "a", "l", "s", "e">>),
   Txt(<<"{", "\"", "a", "\"", ":", "1", "}">>),
   Txt(<<"{", "\"", "a", "\"", ":", "[", "1", "]", "}">>),
   Txt(<<"[", "{", "\"", "a", "\"", ":", "1", "]", "}">>),
   Txt(<<"[", "[", "1", "}", ",", "2", "]">>),
   Txt(<<"{", "n", "u", "l", "l", ":", "[", "]", "}">>),
   Txt(<<"{", "[", "]", ":", "1", "}">>),
   Txt(<<"{", "1", "\"", "a", "\"", "}">>),
   Txt(<<"{", "\"", "a", "\"", "{", "\"", "b", "\"", "}", "1", "}">>),
   Txt(<<"[", "[", "1", "]", ",", "[", "]", "]">>),
   Txt(<<"[", "{", "\"", "a", "\"", ":", "[", "[", "1", "]", ",", "2", "]", "}", ",",
         "[", "]", "]">>),
   Txt(<<"[", "[", "[", "[", "]", "]", "}", "]">>),
   Txt(<<"[", "1", ",", "2", "]">>), Txt(<<"[", "1", " ", "2", "]">>),
   Txt(<<"[", "1", ",", ",", "2", "]">>), Txt(<<"[", "1", ":", "2", "]">>),
   Txt(<<"[", "1", ",", "2", ",", "]">>), Txt(<<",", "[", "1", ",", "2", "]">>),
   Txt(<<"{", "\"", "a", "\"", ",", "t", "r", "u", "e", ":", "\"", "b", "\"", "\n",
         "[", "-", "1", "\t", "2", "]", "}">>),
   Txt(<<"x">>), Txt(<<"[", "x", "]">>), Txt(<<"1", ":">>), Txt(<<"1", "x">>),
   Txt(<<"-">>), Txt(<<"1", "-", "2">>), Txt(<<"1", ".", "5", "e">>),
   Txt(<<"1", ".", "5">>), Txt(<<"1", "2", " ">>), Txt(<<"\t", "\n", "\r", ":">>),
   Txt(<<"\"", "\\", "u", "0", "0", "4", "1", "\"">>),
   Txt(<<"\"", "\\", "u", "0", "0", "e", "9", "\"">>),
   Txt(<<"\"", "\\", "u", "4", "1", "\"", "z", "\"">>),
   Txt(<<"\"", "\\", "u", "z", "z", "z", "z", "\"">>),
   Txt(<<"\"", "\\", "u", "0", "0", "4", "\"">>),
   Txt(<<"\"", "\\", "u", "0", "0", "4">>)}

\* The bytes a number literal is accumulated from, in literals the number
\* parsers accept and in literals they reject.
NumberLiterals ==
  {Txt(<<"0">>), Txt(<<"-", "2", "0">>), Txt(<<"1", "0">>),
   Txt(<<"1", "2", "3", "4", "5", "6", "7", "8", "9", "0">>),
   Txt(<<"1", ".", "0">>), Txt(<<"1", "E", "2">>), Txt(<<"2", "e", "-", "1">>),
   Txt(<<"-", "0", ".", "5">>), Txt(<<"1", ".", "5", "e", "+", "3">>),
   Txt(<<"0", "e", "0">>), Txt(<<"1", "0", "0", "0", "0", "0", "0", "e", "-", "6">>),
   Txt(<<"1", "e", "4", "0", "0">>), Txt(<<"1", ".">>), Txt(<<"1", "e">>),
   Txt(<<"-">>), Txt(<<"1", "-", "2">>), Txt(<<"1", ".", "2", ".", "3">>),
   Txt(<<"1", "+">>)}

\* A number literal alone, as an array item, as a member's value and as a key.
NumberTexts ==
  UNION {{n, Txt(<<"[">>) \o n \o Txt(<<"]">>),
          Txt(<<"[", "1", ",">>) \o n \o Txt(<<",", "n", "u", "l", "l", "]">>),
          Txt(<<"{", "\"", "a", "\"", ":">>) \o n \o Txt(<<"}">>),
          Txt(<<"{">>) \o n \o Txt(<<":", "1", "}">>)} : n \in NumberLiterals}

\* The texts given to loads with nothing known of what they denote.
Inputs ==
  TokenTexts \cup StringTexts \cup EscapeTexts \cup KeywordTexts \cup ExampleTexts
    \cup NumberTexts

(* ------------------------------------------------------------------ *)
(* Strictly valid JSON texts and the values they denote               *)
(* ------------------------------------------------------------------ *)

\* The most items in a generated array, the most members in a generated object.
MaxItems == 2

\* An object value as a mapping: the set of its <<key, value>> pairs.
CDict(pairs) == [t |-> "cdict", items |-> pairs]

RECURSIVE Canon(_)
\* A value with every dict in it read as a mapping (the order of the members
\* dropped).
Canon(v) ==
  IF v.t = "list" THEN ListObj([i \in 1..Len(v.items) |-> Canon(v.items[i])])
  ELSE IF v.t = "dict"
  THEN CDict({<<v.items[i][1], Canon(v.items[i][2])>> : i \in 1..Len(v.items)})
  ELSE v

\* The sequences of at most n members of S.
SeqsUpTo(S, n) == UNION {[1..k -> S] : k \in 0..n}

RECURSIVE Join(_, _)
\* The texts of ts with sep between consecutive ones.
Join(ts, sep) ==
  IF ts = <<>> THEN <<>>
  ELSE IF Len(ts) = 1 THEN ts[1]
  ELSE ts[1] \o sep \o Join(Tail(ts), sep)

\* The layouts of a strict text: the separators with their optional whitespace.
Styles ==
  {[comma |-> Txt(<<",">>), colon |-> Txt(<<":">>), lead |-> <<>>, trail |-> <<>>],
   [comma |-> Txt(<<",", " ">>), colon |-> Txt(<<":", " ">>),
    lead |-> Txt(<<" ">>), trail |-> Txt(<<"\n">>)]}

\* Scalars: <<text, value>>.
StrictLeaves ==
  {<<Txt(<<"n", "u", "l", "l">>), mp_const_none>>,
   <<Txt(<<"t", "r", "u", "e">>), mp_const_true>>,
   <<Txt(<<"f", "a", "l", "s", "e">>), mp_const_false>>,
   <<Txt(<<"1">>), IntObj(1)>>,
   <<Txt(<<"-", "2", "0">>), IntObj(-20)>>,
   <<Txt(<<"1", ".", "5">>), FloatObj(15, -1)>>,
   <<Txt(<<"2", "E", "-", "1">>), FloatObj(2, -1)>>,
   <<Txt(<<"\"", "\\", "u", "0", "0", "4", "1", "\\", "n", "\\", "/", "\"">>),
     StrObj(<<65, 10, 47>>)>>,
   <<Txt(<<"\"", "\\", "u", "0", "0", "E", "9", "\\", "\"", "\\", "\\", "\"">>),
     StrObj(<<195, 169, 34, 92>>)>>}

\* Scalars used as the values of object members.
StrictMemberLeaves ==
  {<<Txt(<<"1">>), IntObj(1)>>,
   <<Txt(<<"\"", "a", "\"">>), StrObj(<<97>>)>>}

\* Object keys; the last two spell the same key.
StrictKeys ==
  {<<Txt(<<"\"", "b", "\"">>), StrObj(<<98>>)>>,
   <<Txt(<<"\"", "a", "\"">>), StrObj(<<97>>)>>,
   <<Txt(<<"\"", "\\", "u", "0", "0", "6", "1", "\"">>), StrObj(<<97>>)>>}

\* The array of the items (<<text, value>> each) in layout st.
StrictArray(items, st) ==
  <<Txt(<<"[">>) \o Join([i \in 1..Len(items) |-> items[i][1]], st.comma)
                 \o Txt(<<"]">>),
    ListObj([i \in 1..Len(items) |-> items[i][2]])>>

\* The object of the members (<<key, item>> each) in layout st; of the members
\* with one key the last gives the value.
StrictObject(ms, st) ==
  <<Txt(<<"{">>)
      \o Join([i \in 1..Len(ms) |-> ms[i][1][1] \o st.colon \o ms[i][2][1]], st.comma)
      \o Txt(<<"}">>),
    CDict({<<ms[i][1][2], ms[i][2][2]>> :
             i \in {i \in 1..Len(ms) :
                      \A j \in (i + 1)..Len(ms) : ms[j][1][2] # ms[i][1][2]}})>>

\* Containers of scalars.
StrictFlat(st) ==
  {StrictArray(items, st) : items \in SeqsUpTo(StrictLeaves, MaxItems)}
    \cup {StrictObject(ms, st) :
            ms \in SeqsUpTo(StrictKeys \X StrictMemberLeaves, MaxItems)}

\* The items of the nested containers.
StrictInner(st) ==
  {StrictArray(<<>>, st), StrictObject(<<>>, st),
   StrictArray(<< <<Txt(<<"2">>), IntObj(2)>>, <<Txt(<<"3">>), IntObj(3)>> >>, st),
   StrictObject(<< << <<Txt(<<"\"", "a", "\"">>), StrObj(<<97>>)>>,
                      <<Txt(<<"t", "r", "u", "e">>), mp_const_true>> >> >>, st),
   StrictArray(<< StrictArray(<< <<Txt(<<"1">>), IntObj(1)>> >>, st) >>, st),
   <<Txt(<<"1">>), IntObj(1)>>}

\* Containers of containers.
StrictNested(st) ==
  {StrictArray(items, st) : items \in SeqsUpTo(StrictInner(st), MaxItems)}
    \cup {StrictObject(ms, st) :
            ms \in SeqsUpTo({k \in StrictKeys : Len(k[1]) = 3} \X StrictInner(st),
                            MaxItems)}

\* Strictly valid texts, each with the value it denotes.
StrictPairs ==
  UNION {{<<st.lead \o p[1] \o st.trail, p[2]>> :
            p \in StrictLeaves \cup StrictFlat(st) \cup StrictNested(st)} :
         st \in Styles}
    \cup {<<Txt(<<"[", "1", ",", " ", "2", ",", " ", "3", "]">>),
            ListObj(<<IntObj(1), IntObj(2), IntObj(3)>>)>>}

\* The cases of a run: a text and, when it was drawn as strict JSON, the value
\* it denotes (MP_OBJ_NULL otherwise).
Cases == {<<t, MP_OBJ_NULL>> : t \in Inputs} \cup StrictPairs

(* ------------------------------------------------------------------ *)
(* Values given to dumps                                              *)
(* ------------------------------------------------------------------ *)

\* Scalars: every variant, strings with bytes of every escaping class, and
\* values the serializer rejects.
EncLeaves ==
  {mp_const_none, mp_const_true, mp_const_false,
   IntObj(0), IntObj(-20),
   FloatObj(15, -1), FloatObj(1, 0), FloatObj(3, 20),
   StrObj(<<>>), StrObj(<<34, 92>>), StrObj(<<10, 1>>),
   StrObj(<<195, 169, 127>>),
   NonFinite("nan"), NonFinite("inf"), BytesObj(<<97>>)}

EncMemberValues == {IntObj(1), StrObj(<<97>>), mp_const_none}

EncKeys == {StrObj(<<98>>), StrObj(<<97>>), StrObj(<<97, 98>>), IntObj(1)}

\* The member lists with pairwise different keys.
DistinctKeys(S) ==
  {ms \in S : \A i, j \in 1..Len(ms) : i # j => ms[i][1] # ms[j][1]}

EncFlat ==
  {ListObj(items) : items \in SeqsUpTo(EncLeaves, MaxItems)}
    \cup {DictObj(ms) :
            ms \in DistinctKeys(SeqsUpTo(EncKeys \X EncMemberValues, MaxItems))}

EncInner ==
  {ListObj(<<>>), DictObj(<<>>), ListObj(<<FloatObj(15, -1), mp_const_true>>),
   DictObj(<< <<StrObj(<<98>>), IntObj(1)>>, <<StrObj(<<97>>), IntObj(2)>> >>),
   ListObj(<<ListObj(<<IntObj(1)>>)>>), TupleObj(<<IntObj(1)>>), IntObj(1),
   ListObj(<<IntObj(1), NonFinite("-inf")>>)}

EncNested ==
  {ListObj(items) : items \in SeqsUpTo(EncInner, MaxItems)}
    \cup {DictObj(ms) :
            ms \in DistinctKeys(SeqsUpTo({StrObj(<<98>>), StrObj(<<97>>)} \X EncInner,
                                         MaxItems))}

\* Values of the documentation's examples and of the error conditions it
\* lists.
EncExamples ==
  {DictObj(<< <<StrObj(<<98>>), IntObj(1)>>, <<StrObj(<<97>>), IntObj(2)>> >>),
   DictObj(<< <<StrObj(<<97>>), NonFinite("nan")>>, <<IntObj(1), IntObj(2)>> >>),
   DictObj(<< <<StrObj(<<97>>), BytesObj(<<97>>)>>, <<mp_const_none, IntObj(2)>> >>),
   ListObj(<<DictObj(<< <<StrObj(<<97>>),
                         DictObj(<< <<FloatObj(15, -1), IntObj(2)>> >>)>> >>)>>),
   ListObj(<<IntObj(1), IntObj(2)>>),
   DictObj(<< <<StrObj(<<233>>), IntObj(1)>>, <<StrObj(<<98>>), IntObj(2)>>,
              <<StrObj(<<97, 98>>), IntObj(3)>>, <<StrObj(<<97>>), IntObj(4)>> >>),
   DictObj(<< <<StrObj(<<99>>),
                DictObj(<< <<StrObj(<<98, 97>>), mp_const_true>>,
                           <<StrObj(<<98>>), ListObj(<<>>)>>,
                           <<StrObj(<<>>), mp_const_none>> >>)>>,
              <<StrObj(<<66>>), IntObj(1)>> >>)}

\* Strings with a byte of every class the escaping tells apart.
EncStrings ==
  {StrObj(<<b>>) : b \in {34, 92, 10, 13, 9, 8, 12, 0, 1, 11, 31, 32, 47, 97, 127,
                          128, 195, 255}}
    \cup {StrObj(<<34, 92>>), StrObj(<<10, 1>>), StrObj(<<195, 169, 127>>),
          StrObj(<<97, 0, 34, 31, 233>>)}

\* Each of them as the value, as an array item and as an object key.
EncStringValues ==
  EncStrings \cup {ListObj(<<str>>) : str \in EncStrings}
    \cup {DictObj(<< <<str, IntObj(1)>> >>) : str \in EncStrings}

EncValues ==
  EncLeaves \cup EncFlat \cup EncNested \cup EncExamples \cup EncStringValues

\* The indent arguments given to dumps.
IndentArgs == {mp_const_none, IntObj(2)}

\* Integers given as indent that are zero or negative: 0, -1, -3 and
\* -4294967294 = -1 * 2^32 + 2.
IndentInts == {IntObj(0), IntObj(-1), IntObj(-3), LongObj(-1, 2)}

(* ------------------------------------------------------------------ *)
(* The decoder as a state machine                                     *)
(* ------------------------------------------------------------------ *)

VARIABLES input, pos, cur, vstr, heap, stack, stack_top, stack_key, pc,
          result, exc,  \* the locals and the outcome of a json_loads call
          expect,       \* the value the text denotes when it was drawn as strict JSON
          key_from,     \* history: the container that was current when the object
                        \* in stack_key was read (MP_OBJ_NULL while none is held)
          mispaired,    \* history: a member was stored whose key was read while
                        \* another container was current
          obj, indent, sort_keys,  \* the arguments of a json_dumps call
          out,          \* its outcome: the text returned or the exception raised
          out2,         \* the outcome of json_dumps on the value decoded from out
          epc,          \* "idle", "start", "dumped", "raised", "loaded", "redumped",
                        \* "written"
          sink,         \* the bytes written to the stream given to json_dump
          dumpres,      \* the outcome of the json_dump call: "idle" before it,
                        \* "none" when it returned, else the exception raised
          calls         \* the locals of each of the calls that run concurrently

decvars == <<input, pos, cur, vstr, heap, stack, stack_top, stack_key, pc,
             result, exc>>

encvars == <<obj, indent, sort_keys, out, out2, epc, sink, dumpres>>

\* The history variables of the pending key.
keyvars == <<key_from, mispaired>>

vars == <<decvars, expect, keyvars, encvars, calls>>

\* The locals of the running call, as a decoder state.
Dec ==
  [input |-> input, pos |-> pos, cur |-> cur, vstr |-> vstr, heap |-> heap,
   stack |-> stack, stack_top |-> stack_top, stack_key |-> stack_key,
   pc |-> pc, result |-> result, exc |-> exc]

\* The locals after the step that leads to decoder state d.
Becomes(d) ==
  /\ input' = d.input
  /\ pos' = d.pos
  /\ cur' = d.cur
  /\ vstr' = d.vstr
  /\ heap' = d.heap
  /\ stack' = d.stack
  /\ stack_top' = d.stack_top
  /\ stack_key' = d.stack_key
  /\ pc' = d.pc
  /\ result' = d.result
  /\ exc' = d.exc

\* The locals are those of decoder state d.
Holds(d) ==
  /\ input = d.input
  /\ pos = d.pos
  /\ cur = d.cur
  /\ vstr = d.vstr
  /\ heap = d.heap
  /\ stack = d.stack
  /\ stack_top = d.stack_top
  /\ stack_key = d.stack_key
  /\ pc = d.pc
  /\ result = d.result
  /\ exc = d.exc

\* No key is pending and no member has been stored.
NoKey == key_from = MP_OBJ_NULL /\ mispaired = FALSE

\* No json_dumps call is made.
NoDumps ==
  /\ obj = MP_OBJ_NULL
  /\ indent = mp_const_none
  /\ sort_keys = FALSE
  /\ out = Raises("none")
  /\ out2 = Raises("none")
  /\ epc = "idle"
  /\ sink = <<>>
  /\ dumpres = "idle"

\* json_loads(text): the call has set up its locals and read the first byte.
Init ==
  \E c \in Cases :
    /\ Holds(InitDec(c[1]))
    /\ expect = c[2]
    /\ NoKey
    /\ NoDumps
    /\ calls = <<>>

\* A step of the decoder to decoder state d.
DecStep(after) ==
  \E d \in {after} :
    /\ Becomes(d)
    /\ key_from' = IF d.stack_key = MP_OBJ_NULL THEN MP_OBJ_NULL
                   ELSE IF stack_key = MP_OBJ_NULL THEN stack_top
                   ELSE key_from
    /\ mispaired' = (\/ mispaired
                     \/ /\ stack_key # MP_OBJ_NULL
                        /\ d.stack_key = MP_OBJ_NULL
                        /\ key_from # stack_top)
    /\ UNCHANGED <<expect, encvars, calls>>

\* if (S_END(s)) goto fail;
FailEOF == pc = "main" /\ cur = S_EOF /\ DecStep(MainStep(Dec))

\* case ',': case ':': case ' ': case '\t': case '\n': case '\r': goto cont;
SkipSeparator == pc = "main" /\ IsSeparator(cur) /\ DecStep(MainStep(Dec))

\* case 'n': case 'f': case 't':
ReadKeyword == pc = "main" /\ IsKeywordStart(cur) /\ DecStep(MainStep(Dec))

\* case '"':
ReadString == pc = "main" /\ cur = Ch["\""] /\ DecStep(MainStep(Dec))

\* case '-': case '0': ... case '9':
ReadNumber == pc = "main" /\ IsNumberStart(cur) /\ DecStep(MainStep(Dec))

\* case '[': case '{':
OpenContainer == pc = "main" /\ IsOpener(cur) /\ DecStep(MainStep(Dec))

\* case '}': case ']':
CloseContainer == pc = "main" /\ IsCloser(cur) /\ DecStep(MainStep(Dec))

\* default: goto fail;
FailDefault ==
  /\ pc = "main"
  /\ cur # S_EOF
  /\ ~IsSeparator(cur) /\ ~IsKeywordStart(cur) /\ cur # Ch["\""]
  /\ ~IsNumberStart(cur) /\ ~IsOpener(cur) /\ ~IsCloser(cur)
  /\ DecStep(MainStep(Dec))

\* success: the trailing-data check, then return or fail.
Finish == pc = "success" /\ DecStep(SuccessStep(Dec))

Next ==
  \/ FailEOF
  \/ SkipSeparator
  \/ ReadKeyword
  \/ ReadString
  \/ ReadNumber
  \/ OpenContainer
  \/ CloseContainer
  \/ FailDefault
  \/ Finish

Spec == Init /\ [][Next]_vars

(* ------------------------------------------------------------------ *)
(* dumps, loads of its text, dumps of the decoded value               *)
(* ------------------------------------------------------------------ *)

\* A value and the formatting options are chosen; no call has been made.
InitCodec ==
  /\ Holds([InitDec(<<>>) EXCEPT !.pc = "idle"])
  /\ expect = MP_OBJ_NULL
  /\ NoKey
  /\ obj \in EncValues
  /\ indent \in IndentArgs
  /\ sort_keys \in BOOLEAN
  /\ out = Raises("none")
  /\ out2 = Raises("none")
  /\ epc = "start"
  /\ sink = Txt(<<"1", "\n">>)
  /\ dumpres = "idle"
  /\ calls = <<>>

\* out = json.dumps(obj, indent=indent, sort_keys=sort_keys)
Dumps ==
  /\ epc = "start"
  /\ out' = json_dumps(obj, indent, sort_keys, "fwd")
  /\ epc' = IF out'.ok THEN "dumped" ELSE "raised"
  /\ UNCHANGED <<decvars, expect, keyvars, obj, indent, sort_keys, out2, sink, dumpres, calls>>

\* json.loads(out)
Loads ==
  /\ epc = "dumped"
  /\ Becomes(json_loads(out.text))
  /\ epc' = "loaded"
  /\ UNCHANGED <<expect, keyvars, obj, indent, sort_keys, out, out2, sink, dumpres, calls>>

\* out2 = json.dumps(result, indent=indent, sort_keys=sort_keys); the slots of
\* the decoded dicts' tables are in either order.
ReDumps ==
  /\ epc = "loaded"
  /\ pc = "done"
  /\ \E slots \in {"fwd", "rev"} : out2' = json_dumps(result, indent, sort_keys, slots)
  /\ epc' = "redumped"
  /\ UNCHANGED <<decvars, expect, keyvars, obj, indent, sort_keys, out, sink, dumpres, calls>>

\* json.dump(obj, sink, indent=indent, sort_keys=sort_keys), called after
\* json.dumps with the same arguments has returned or raised.
Dump ==
  /\ epc \in {"dumped", "raised"}
  /\ LET r == json_dump(obj, sink, indent, sort_keys, "fwd")
     IN sink' = r.stream /\ dumpres' = r.exc
  /\ epc' = "written"
  /\ UNCHANGED <<decvars, expect, keyvars, obj, indent, sort_keys, out, out2, calls>>

NextCodec == Dumps \/ Loads \/ ReDumps \/ Dump

SpecCodec == InitCodec /\ [][NextCodec]_vars

(* ------------------------------------------------------------------ *)
(* Calls of json_loads and json_dumps that run concurrently           *)
(* ------------------------------------------------------------------ *)

\* The texts given to the concurrent json_loads calls.
CallTexts ==
  {Txt(<<"{", "\"", "a", "\"", ":", "1", "}">>),
   Txt(<<"{", "\"", "b", "\"", ":", "[", "2", "]", "}">>),
   Txt(<<"[", "\"", "a", "\"", ",", "{", "}", "]">>),
   Txt(<<"[", "1", ",", "[", "t", "r", "u", "e", "]", "]">>),
   Txt(<<"\"", "a", "\\", "n", "\"", " ", "\n">>),
   Txt(<<"[", "-", "1", ".", "5", ",">>),
   Txt(<<"{", "\"", "a", "\"", "}", "x">>)}

\* The values given to the concurrent json_dumps calls.
CallValues ==
  {DictObj(<< <<StrObj(Txt(<<"b">>)), IntObj(1)>>,
              <<StrObj(Txt(<<"a">>)), ListObj(<<IntObj(2)>>)>> >>),
   ListObj(<<StrObj(Txt(<<"a", "\n">>)), NonFinite("nan")>>)}

\* A json_loads call that has set up its locals (lines 58-69): d holds the
\* locals of json_load_impl, at the loop the call is in ("top": the main loop
\* or the code from success: on, as d.pc tells; "string"; "number"), cur and
\* flt the locals of the number case.
LoadsCall(text) ==
  [kind |-> "loads", d |-> InitDec(text), at |-> "top", cur |-> 0, flt |-> FALSE]

\* A json_dumps call that has received its arguments (lines 440-451).
DumpsCall(o, arg, sk) ==
  [kind |-> "dumps", obj |-> o, arg |-> arg, sort_keys |-> sk,
   pc |-> "args", indent |-> 0, out |-> Raises("none")]

\* The calls that may run.
CallSet ==
  {LoadsCall(t) : t \in CallTexts}
    \cup {DumpsCall(o, a, sk) : o \in CallValues, a \in IndentArgs \cup IndentInts,
                               sk \in {TRUE}}

\* The indices of the concurrent calls.
CallIds == {1, 2}

\* A stack_key with static storage: one slot that every json_loads call
\* writes and reads.
Store_static_key(cs, i, c) ==
  [j \in DOMAIN cs |->
     IF j = i THEN c
     ELSE IF c.kind = "loads" /\ cs[j].kind = "loads"
          THEN [cs[j] EXCEPT !.d.stack_key = c.d.stack_key]
     ELSE cs[j]]

\* Call i assigns its locals: s, vstr, stack, stack_top and stack_key of
\* json_load_impl and indent, sort_keys and vstr of json_dumps are automatic
\* variables of the call, so no other call's locals change.
Store(cs, i, c) == [cs EXCEPT ![i] = c]

\* Two calls have been made and none has run a step.
InitCalls ==
  /\ Holds([InitDec(<<>>) EXCEPT !.pc = "idle"])
  /\ expect = MP_OBJ_NULL
  /\ NoKey
  /\ NoDumps
  /\ calls \in [CallIds -> CallSet]

\* The loop a json_loads call is in.
LoopOf(c) == IF c.at = "top" THEN c.d.pc ELSE c.at

\* The string loop of the call goes on: !S_END(s) && S_CUR(s) != '"'
InString(c) == ~(S_END(c.d) \/ c.d.cur = Ch["\""])

\* The locals of a json_loads call after its next loop iteration:
\*   main loop    the byte in cur is dispatched on; a quote or the first byte
\*                of a number leads into the string or number loop, any other
\*                byte is dealt with in the pass;
\*   string loop  one iteration, or, the loop having ended, the string is
\*                attached or the call fails;
\*   number loop  one iteration; the one that breaks goes on to parse the
\*                literal and attach the number;
\*   success:     one iteration of the whitespace loop, or, the loop having
\*                ended, the return or the failure.
LoopStep(c) ==
  LET d == c.d IN
  CASE LoopOf(c) = "main" ->
         LET n == [S_NEXT(d) EXCEPT !.vstr = <<>>] IN
         IF d.cur = Ch["\""] THEN [c EXCEPT !.d = n, !.at = "string"]
         ELSE IF IsNumberStart(d.cur)
           THEN [c EXCEPT !.d = n, !.at = "number", !.cur = d.cur, !.flt = FALSE]
         ELSE [c EXCEPT !.d = MainStep(d)]
    [] LoopOf(c) = "string" ->
         IF InString(c) THEN [c EXCEPT !.d = StrIter(d)]
         ELSE [c EXCEPT !.d = Leaf(StringEnd(d)), !.at = "top"]
    [] LoopOf(c) = "number" ->
         LET r == NumIter(d, c.cur, c.flt) IN
         IF r.more THEN [c EXCEPT !.d = r.d, !.cur = r.cur, !.flt = r.flt]
         ELSE [c EXCEPT !.d = Leaf(NumberEnd([d |-> r.d, flt |-> r.flt])),
                        !.cur = r.cur, !.at = "top"]
    [] LoopOf(c) = "success" ->
         IF unichar_isspace(d.cur) THEN [c EXCEPT !.d = SpaceIter(d)]
         ELSE [c EXCEPT !.d = SuccessStep(d)]
    [] OTHER -> c

\* Call i, a json_loads call in the loop named, runs its next iteration.
LoopAction(i, loop) ==
  /\ calls[i].kind = "loads"
  /\ LoopOf(calls[i]) = loop
  /\ calls' = Store(calls, i, LoopStep(calls[i]))
  /\ UNCHANGED <<decvars, expect, keyvars, encvars>>

\* One pass of the main loop of a call.
CallMainPass == \E i \in DOMAIN calls : LoopAction(i, "main")

\* One iteration of the string loop of a call.
CallStringIter == \E i \in DOMAIN calls : calls[i].kind = "loads" /\ InString(calls[i]) /\ LoopAction(i, "string")

\* The string loop of a call has ended.
CallStringEnd == \E i \in DOMAIN calls : calls[i].kind = "loads" /\ ~InString(calls[i]) /\ LoopAction(i, "string")

\* One iteration of the number loop of a call.
CallNumberIter == \E i \in DOMAIN calls : LoopAction(i, "number")

\* One iteration of the trailing-whitespace loop of a call.
CallSpaceIter ==
  \E i \in DOMAIN calls :
    calls[i].kind = "loads" /\ unichar_isspace(calls[i].d.cur) /\ LoopAction(i, "success")

\* The trailing-whitespace loop of a call has ended: the call returns or fails.
CallReturn ==
  \E i \in DOMAIN calls :
    calls[i].kind = "loads" /\ ~unichar_isspace(calls[i].d.cur) /\ LoopAction(i, "success")

\* A json_dumps call sets indent from its argument (lines 453-457).
CallDumpsArgs ==
  \E i \in CallIds :
    /\ calls[i].kind = "dumps"
    /\ calls[i].pc = "args"
    /\ calls' = Store(calls, i, [calls[i] EXCEPT !.indent = IndentArg(calls[i].arg),
                                                  !.pc = "serialize"])
    /\ UNCHANGED <<decvars, expect, keyvars, encvars>>

\* A json_dumps call serializes into its vstr and returns (lines 460-465).
CallDumpsSerialize ==
  \E i \in CallIds :
    /\ calls[i].kind = "dumps"
    /\ calls[i].pc = "serialize"
    /\ LET r == serialize_obj(calls[i].obj, calls[i].indent, 0,
                              calls[i].sort_keys, "fwd")
       IN calls' = Store(calls, i, [calls[i] EXCEPT !.out = r,
                                      !.pc = IF r.ok THEN "done" ELSE "raised"])
    /\ UNCHANGED <<decvars, expect, keyvars, encvars>>

\* The steps of json_loads calls.
NextLoops ==
  \/ CallMainPass
  \/ CallStringIter
  \/ CallStringEnd
  \/ CallNumberIter
  \/ CallSpaceIter
  \/ CallReturn

NextCalls == NextLoops \/ CallDumpsArgs \/ CallDumpsSerialize

SpecCalls == InitCalls /\ [][NextCalls]_vars

(* ------------------------------------------------------------------ *)
(* One json_loads call, loop iteration by loop iteration              *)
(* ------------------------------------------------------------------ *)

\* The texts a byte sequence is the beginning of.
Prefixes(text) == {SubSeq(text, 1, n) : n \in 0..Len(text)}

\* Texts with whitespace after the value, escapes, and a 0x00 byte.
LoopExamples ==
  {Txt(<<"\"", "\\", "n", "\\", "\"", "\"", " ", "\t", "\n">>),
   Txt(<<"[", "1", ".", "5", "e", "+", "3", " ", ",", "\"", "x", "\\">>),
   Txt(<<"{", "\"", "b", "\"", ":", " ", "-", "1", "2", ".", "5", "}", "\r", "\n">>),
   Txt(<<"[", "f", "a", "l", "s", "e", ",", "n", "u", "l", "l", "]", " ", "x">>),
   Txt(<<"1">>) \o <<0>> \o Txt(<<"t", "r", "u", "e">>),
   Txt(<<"\"", "a">>) \o <<0>> \o Txt(<<"\"">>)}

\* The texts given to the call: every text of the examples and every
\* beginning of one, so that the input ends inside a string, an escape, a \u
\* escape, a keyword and a number.
LoopTexts == UNION {Prefixes(t) : t \in ExampleTexts \cup LoopExamples}

\* One call has been made and has run no step.
InitLoops ==
  /\ Holds([InitDec(<<>>) EXCEPT !.pc = "idle"])
  /\ expect = MP_OBJ_NULL
  /\ NoKey
  /\ NoDumps
  /\ calls \in [{1} -> {LoadsCall(t) : t \in LoopTexts}]

\* A json_loads call has not returned or raised.
Running == \E i \in DOMAIN calls : LoopOf(calls[i]) \notin {"done", "fail"}

\* The call runs on the CPU and waits for nothing: while it has not ended it
\* takes its next step. This is WF_vars(NextLoops) with ENABLED
\* <<NextLoops>>_vars written as Running, the two being equal where the next
\* iteration changes the locals of the call.
LoopsFair == []<>(~Running) \/ []<><<NextLoops>>_vars

SpecLoops == InitLoops /\ [][NextLoops]_vars /\ LoopsFair

(* ------------------------------------------------------------------ *)
(* The claims                                                         *)
(* ------------------------------------------------------------------ *)

Returned == pc = "done"

Raised == pc = "fail"

Ended == Returned \/ Raised

\* The bytes of the input from the one held in cur on.
Rest == SubSeq(input, pos, Len(input))

\* Whitespace in the widest sense: space, \t, \n, \v, \f, \r.
IsWhite(b) == b \in {32, 9, 10, 11, 12, 13}

\* C1: once the top-level value is complete, a byte that is not whitespace
\* anywhere in the rest of the input makes the decode fail.
C1_TrailingDataFails ==
  [][(pc = "success" /\ \E i \in 1..Len(Rest) : ~IsWhite(Rest[i])) => pc' = "fail"]_vars

RECURSIVE AllKeysStr(_)
\* Every key of every object in the value is a string.
AllKeysStr(v) ==
  IF v.t = "list" THEN \A i \in 1..Len(v.items) : AllKeysStr(v.items[i])
  ELSE IF v.t = "dict"
  THEN \A i \in 1..Len(v.items) :
         v.items[i][1].t = "str" /\ AllKeysStr(v.items[i][2])
  ELSE TRUE

\* C2: a value returned by decode has no object with a key that is not a
\* string.
C2_KeysAreStrings == Returned => AllKeysStr(result)

\* C3: a strictly valid JSON text is decoded, and to the value it denotes
\* (objects compared as mappings, the last of the members with one key giving
\* the value).
C3_StrictTextDecoded ==
  (Ended /\ expect # MP_OBJ_NULL) => (Returned /\ Canon(result) = expect)

\* C3 witness: the object with the key "a" spelled twice, the second time
\* escaped, has been decoded to the object of the one member a: "a".
C3_Witness ==
  /\ Returned
  /\ expect # MP_OBJ_NULL
  /\ input = Txt(<<"{", "\"", "a", "\"", ":", "1", ",",
                   "\"", "\\", "u", "0", "0", "6", "1", "\"", ":", "\"", "a", "\"", "}">>)
  /\ result = DictObj(<< <<StrObj(<<97>>), StrObj(<<97>>)>> >>)

RECURSIVE Supported(_)
\* A value built from null, booleans, integers, finite floats, strings, arrays
\* and string-keyed objects.
Supported(v) ==
  IF v.t = "list" THEN \A i \in 1..Len(v.items) : Supported(v.items[i])
  ELSE IF v.t = "dict"
  THEN \A i \in 1..Len(v.items) :
         v.items[i][1].t = "str" /\ Supported(v.items[i][2])
  ELSE v.t \in {"none", "bool", "int", "float", "str"}

\* C4: the compact encoding of a supported value decodes to an equal value,
\* every number of its own variant (objects compared as mappings).
C4_RoundTrip ==
  (epc = "loaded" /\ Supported(obj) /\ indent = mp_const_none)
    => (Returned /\ Canon(result) = Canon(obj))

\* C5: the text encoded from the value decoded from dumps's text is that
\* text, the formatting options being the same.
C5_ReencodeSameText == epc = "redumped" => (out2.ok /\ out2.text = out.text)

\* Every byte of the text is one the main loop skips.
OnlySeparators(text) == \A i \in 1..Len(text) : IsSeparator(text[i])

\* The text opens a string literal and holds no other quote.
UnterminatedString(text) ==
  /\ text # <<>>
  /\ text[1] = Ch["\""]
  /\ \A i \in 2..Len(text) : text[i] # Ch["\""]

\* The text is the beginning of a keyword, cut before its end.
TruncatedKeyword(text) ==
  \E k \in Keywords : \E n \in 1..(Len(k) - 1) : text = SubSeq(k, 1, n)

\* The openers less the closers among the first k bytes of the text.
Depth(text, k) ==
  Cardinality({i \in 1..k : IsOpener(text[i])})
    - Cardinality({i \in 1..k : IsCloser(text[i])})

\* A text without string literals whose top-level value is a container that no
\* closer closes: only separators come before its opener and the depth stays
\* positive from there to the end.
LeftOpen(text) ==
  /\ \A i \in 1..Len(text) : text[i] # Ch["\""]
  /\ \E o \in 1..Len(text) :
       /\ IsOpener(text[o])
       /\ \A i \in 1..(o - 1) : IsSeparator(text[i])
       /\ \A k \in o..Len(text) : Depth(text, k) > 0

\* C6: decode fails when the input ends before the top-level value is
\* complete: on an empty or separators-only input, inside an unterminated
\* string, inside a keyword, and with a container still open.
C6_TruncatedInputFails ==
  (Ended /\ (\/ OnlySeparators(input)
             \/ UnterminatedString(input)
             \/ TruncatedKeyword(input)
             \/ LeftOpen(input)))
    => Raised

\* C6 witness: the decode of [1, 2 has run into the end of the input with the
\* array open, and has failed.
C6_Witness ==
  /\ Raised
  /\ input = Txt(<<"[", "1", ",", " ", "2">>)
  /\ pos > Len(input)
  /\ stack_top = Ref(1)
  /\ heap[1].items = <<IntObj(1), IntObj(2)>>

\* C7: a closer read with no container open fails; one read with the
\* top-level container current ends the value (the trailing-data check is
\* next); any other makes the parent, the last entry of the stack, current
\* again, leaves the other entries in place and goes on decoding.
C7_CloserClosesInnermost ==
  [][(pc = "main" /\ IsCloser(cur)) =>
       IF stack_top = MP_OBJ_NULL THEN pc' = "fail"
       ELSE IF stack = <<>> THEN pc' = "success" /\ stack_top' = stack_top
       ELSE /\ pc' = "main"
            /\ stack_top' = stack[Len(stack)]
            /\ stack' = SubSeq(stack, 1, Len(stack) - 1)
            /\ heap' = heap]_vars

\* C7 witness: a closer has closed an inner container and its parent, the
\* top-level container, is current again.
C7_Witness ==
  /\ pc = "main"
  /\ pos > 1 /\ pos - 1 <= Len(input) /\ IsCloser(input[pos - 1])
  /\ Len(heap) = 2
  /\ stack = <<>>
  /\ stack_top = Ref(1)
  /\ heap[1].items # <<>>

\* C8: a closer that is not of the kind of the current container's opener
\* fails.
C8_MismatchedCloserFails ==
  [][(/\ pc = "main"
      /\ stack_top # MP_OBJ_NULL
      /\ \/ cur = Ch["]"] /\ heap[stack_top.id].t = "dict"
         \/ cur = Ch["}"] /\ heap[stack_top.id].t = "list")
       => pc' = "fail"]_vars

\* The bytes that may follow a backslash in a string literal.
RecognisedEscapes ==
  {Ch["\""], Ch["\\"], Ch["/"], Ch["b"], Ch["f"], Ch["n"], Ch["r"], Ch["t"],
   Ch["u"]}

\* The byte a recognised escape character other than u stands for.
EscapedByte(c) ==
  IF c = Ch["b"] THEN 8
  ELSE IF c = Ch["f"] THEN 12
  ELSE IF c = Ch["n"] THEN 10
  ELSE IF c = Ch["r"] THEN 13
  ELSE IF c = Ch["t"] THEN 9
  ELSE c

\* C9: a string literal in which a backslash is followed by a byte that is no
\* recognised escape character fails; the literal of one recognised escape
\* other than \u decodes to the string of the byte the escape stands for.
C9_InvalidEscapeFails ==
  (/\ Ended
   /\ Len(input) >= 3
   /\ input[1] = Ch["\""] /\ input[2] = Ch["\\"])
    => /\ input[3] \notin RecognisedEscapes => Raised
       /\ (/\ Len(input) = 4
           /\ input[3] \in RecognisedEscapes \ {Ch["u"]}
           /\ input[4] = Ch["\""])
            => (Returned /\ result = StrObj(<<EscapedByte(input[3])>>))

IsHex(b) ==
  \/ unichar_isdigit(b)
  \/ (b >= Ch["a"] /\ b <= Ch["f"])
  \/ (b >= Ch["A"] /\ b <= Ch["F"])

\* The value of a hexadecimal digit.
HexDigitValue(b) ==
  IF unichar_isdigit(b) THEN b - Ch["0"]
  ELSE IF b >= Ch["a"] THEN b - Ch["a"] + 10
  ELSE b - Ch["A"] + 10

\* C10: a \u at the start of a string literal that is not followed by four
\* hexadecimal digits fails; the literal of one \u escape with four
\* hexadecimal digits decodes to the string of the code point they spell.
C10_BadUnicodeEscapeFails ==
  (/\ Ended
   /\ Len(input) >= 3
   /\ input[1] = Ch["\""] /\ input[2] = Ch["\\"] /\ input[3] = Ch["u"])
    => /\ (\E i \in 4..7 : i > Len(input) \/ ~IsHex(input[i])) => Raised
       /\ (/\ Len(input) = 8
           /\ \A i \in 4..7 : IsHex(input[i])
           /\ input[8] = Ch["\""])
            => /\ Returned
               /\ result = StrObj(Utf8(4096 * HexDigitValue(input[4])
                                         + 256 * HexDigitValue(input[5])
                                         + 16 * HexDigitValue(input[6])
                                         + HexDigitValue(input[7])))

\* The bytes of the literal mark it as a float.
HasFloatMark(lit) == \E i \in 1..Len(lit) : lit[i] \in {Ch["."], Ch["e"], Ch["E"]}

\* The value that the step has made the top-level value, appended to the
\* current array, taken as the pending key or stored under the pending key.
ValueAttached ==
  IF stack_top = MP_OBJ_NULL THEN stack_top'
  ELSE LET top == heap'[stack_top.id] IN
       IF top.t = "list" THEN top.items[Len(top.items)]
       ELSE IF stack_key = MP_OBJ_NULL THEN stack_key'
       ELSE mp_obj_dict_get(top.items, stack_key)

\* C11: a number literal that is decoded gives a float when the literal
\* accumulated in the buffer holds a ., an e or an E, and an integer when it
\* holds none, wherever the literal stands and however many digits it has.
C11_VariantByText ==
  [][(pc = "main" /\ IsNumberStart(cur) /\ pc' # "fail")
       => ValueAttached.t = IF HasFloatMark(vstr') THEN "float" ELSE "int"]_vars

\* C11 witness: an integral value written with an exponent has been decoded
\* as a float, in an array.
C11_Witness ==
  /\ Returned
  /\ input = Txt(<<"[", "1", "E", "2", "]">>)
  /\ result = ListObj(<<FloatObj(1, 2)>>)

\* The value returned or the failure raised by a decode that has ended.
Outcome(d) == <<d.pc, d.result, d.exc>>

\* A byte a number literal is accumulated from.
IsNumberByte(b) == unichar_isdigit(b) \/ b \in {Ch["+"], Ch["-"], Ch["."], Ch["e"], Ch["E"]}

\* The separator at index i keeps two tokens apart: the bytes around it would
\* be read as one number literal.
KeepsApart(text, i) ==
  /\ i > 1 /\ i < Len(text)
  /\ IsNumberByte(text[i - 1])
  /\ IsNumberByte(text[i + 1])

\* The texts made from text by an edit of the separator at index i: another
\* separator in its place, the separator repeated, the separator removed.
SeparatorEdits(text, i) ==
  {[text EXCEPT ![i] = b] : b \in {Ch[","], Ch[":"], Ch[" "], Ch["\n"]}}
    \cup {SubSeq(text, 1, i) \o SubSeq(text, i, Len(text))}
    \cup (IF KeepsApart(text, i) THEN {}
          ELSE {SubSeq(text, 1, i - 1) \o SubSeq(text, i + 1, Len(text))})

\* The spellings of the array of 1 and 2 given as examples.
ArrayOneTwoTexts ==
  {Txt(<<"[", "1", ",", "2", "]">>), Txt(<<"[", "1", " ", "2", "]">>),
   Txt(<<"[", "1", ",", ",", "2", "]">>), Txt(<<"[", "1", ":", "2", "]">>),
   Txt(<<"[", "1", ",", "2", ",", "]">>), Txt(<<",", "[", "1", ",", "2", "]">>)}

\* C12: when the main loop is at a separator, the text with another
\* separator in its place, with the separator repeated, or with the separator
\* removed (unless it keeps two tokens apart) decodes to the same outcome; the
\* example spellings all decode to the array of 1 and 2.
C12_SeparatorsInterchangeable ==
  /\ (pc = "main" /\ IsSeparator(cur)) =>
       LET same == Outcome(json_loads(input)) IN
       \A t \in SeparatorEdits(input, pos) : Outcome(json_loads(t)) = same
  /\ (Ended /\ input \in ArrayOneTwoTexts) =>
       (Returned /\ result = ListObj(<<IntObj(1), IntObj(2)>>))

\* C12 witness: the array of 1 and 2 written with a colon has been decoded.
C12_Witness ==
  /\ Returned
  /\ input = Txt(<<"[", "1", ":", "2", "]">>)
  /\ result = ListObj(<<IntObj(1), IntObj(2)>>)

\* json_dumps has been called and has returned or raised.
DumpsEnded == epc # "start" /\ epc # "idle"

RECURSIVE ContainsNonFinite(_)
\* A NaN or an infinity is somewhere in the value.
ContainsNonFinite(v) ==
  IF v.t = "nonfinite" THEN TRUE
  ELSE IF v.t \in {"list", "tuple"}
  THEN \E i \in 1..Len(v.items) : ContainsNonFinite(v.items[i])
  ELSE IF v.t = "dict"
  THEN \E i \in 1..Len(v.items) :
         ContainsNonFinite(v.items[i][1]) \/ ContainsNonFinite(v.items[i][2])
  ELSE FALSE

\* The word w is a part of the text.
HasToken(text, w) ==
  \E i \in 1..(Len(text) - Len(w) + 1) : SubSeq(text, i, i + Len(w) - 1) = w

\* C13: dumps of a value with a NaN or an infinity in it, at any depth,
\* raises and returns no text; no text returned by dumps holds NaN or
\* Infinity.
C13_NonFiniteRaises ==
  DumpsEnded =>
    /\ ContainsNonFinite(obj) => (~out.ok /\ out.text = <<>> /\ out.exc # "none")
    /\ out.ok => /\ ~HasToken(out.text, Txt(<<"N", "a", "N">>))
                 /\ ~HasToken(out.text, Txt(<<"I", "n", "f", "i", "n", "i", "t", "y">>))

\* C13 witness: dumps has raised on a negative infinity two arrays deep.
C13_Witness ==
  /\ epc = "raised"
  /\ obj = ListObj(<<IntObj(1), ListObj(<<IntObj(1), NonFinite("-inf")>>)>>)
  /\ out = Raises("ValueError")

RECURSIVE HasNonStrKey(_)
\* Some dict in the value has a key that is not a str.
HasNonStrKey(v) ==
  IF v.t \in {"list", "tuple"}
  THEN \E i \in 1..Len(v.items) : HasNonStrKey(v.items[i])
  ELSE IF v.t = "dict"
  THEN \E i \in 1..Len(v.items) :
         v.items[i][1].t # "str" \/ HasNonStrKey(v.items[i][2])
  ELSE FALSE

\* C14: dumps of a value in which a dict has a key that is not a string, at
\* any depth and with either sort_keys setting, raises and returns no text;
\* when the dict is the value itself the keys are checked before any member
\* is written, so the error is that of the key whatever the members' values.
C14_NonStringKeyRaises ==
  DumpsEnded =>
    /\ HasNonStrKey(obj) => (~out.ok /\ out.text = <<>> /\ out.exc # "none")
    /\ (obj.t = "dict" /\ \E i \in 1..Len(obj.items) : obj.items[i][1].t # "str")
         => out = Raises("TypeError")

\* C14 witness: dumps has raised for the key 1 that follows a member whose
\* value is a NaN; and, with sort_keys set, for a float key three levels deep.
C14_Witness ==
  /\ epc = "raised"
  /\ out = Raises("TypeError")
  /\ \/ obj = DictObj(<< <<StrObj(<<97>>), NonFinite("nan")>>, <<IntObj(1), IntObj(2)>> >>)
     \/ /\ sort_keys
        /\ obj = ListObj(<<DictObj(<< <<StrObj(<<97>>),
                               DictObj(<< <<FloatObj(15, -1), IntObj(2)>> >>)>> >>)>>)

RECURSIVE ContainsUnsupported(_)
\* A value that is no null, boolean, number, string, array or object is
\* somewhere in the value.
ContainsUnsupported(v) ==
  IF v.t \in {"list", "tuple"}
  THEN \E i \in 1..Len(v.items) : ContainsUnsupported(v.items[i])
  ELSE IF v.t = "dict"
  THEN \E i \in 1..Len(v.items) : ContainsUnsupported(v.items[i][2])
  ELSE v.t \notin {"none", "bool", "int", "float", "nonfinite", "str"}

\* C15: dumps of a value built from null, booleans, integers, finite floats,
\* strings, arrays and string-keyed objects returns text; when dumps raises,
\* the value holds a NaN or an infinity, a key that is not a string, or a
\* value of no supported variant.
C15_RaisesOnlyOnUnrepresentable ==
  DumpsEnded =>
    /\ Supported(obj) => (out.ok /\ out.exc = "none")
    /\ ~out.ok => \/ ContainsNonFinite(obj)
                  \/ HasNonStrKey(obj)
                  \/ ContainsUnsupported(obj)

\* C15 witness: dumps has returned the text of an array of an empty array and
\* an object.
C15_Witness ==
  /\ epc = "dumped"
  /\ obj = ListObj(<<ListObj(<<>>),
                     DictObj(<< <<StrObj(<<98>>), IntObj(1)>>,
                                <<StrObj(<<97>>), IntObj(2)>> >>)>>)
  /\ indent = mp_const_none /\ ~sort_keys
  /\ out = Emitted(Txt(<<"[", "[", "]", ",", " ", "{", "\"", "b", "\"", ":", " ", "1",
                         ",", " ", "\"", "a", "\"", ":", " ", "2", "}", "]">>))

\* The hexadecimal digit of n < 16 in lower case.
LowerHex(n) == Txt(<<"0", "1", "2", "3", "4", "5", "6", "7", "8", "9",
                     "a", "b", "c", "d", "e", "f">>)[n + 1]

\* The text that stands for byte b inside a string literal.
ByteTranslation(b) ==
  IF b = 34 THEN Txt(<<"\\", "\"">>)
  ELSE IF b = 92 THEN Txt(<<"\\", "\\">>)
  ELSE IF b = 10 THEN Txt(<<"\\", "n">>)
  ELSE IF b = 13 THEN Txt(<<"\\", "r">>)
  ELSE IF b = 9 THEN Txt(<<"\\", "t">>)
  ELSE IF b = 8 THEN Txt(<<"\\", "b">>)
  ELSE IF b = 12 THEN Txt(<<"\\", "f">>)
  ELSE IF b < 32 THEN Txt(<<"\\", "u", "0", "0">>) \o <<LowerHex(b \div 16), LowerHex(b % 16)>>
  ELSE <<b>>

RECURSIVE StringLiteralBody(_)
StringLiteralBody(bytes) ==
  IF bytes = <<>> THEN <<>>
  ELSE ByteTranslation(Head(bytes)) \o StringLiteralBody(Tail(bytes))

\* A quote, the translation of every byte, a quote.
StringLiteral(bytes) == Txt(<<"\"">>) \o StringLiteralBody(bytes) \o Txt(<<"\"">>)

\* C16: dumps of a string is a quote, the translation of each of its bytes
\* and a quote; the key of an object is written the same way.
C16_EscapeTranslation ==
  DumpsEnded =>
    /\ obj.t = "str" => out = Emitted(StringLiteral(obj.s))
    /\ (obj.t = "dict" /\ Len(obj.items) = 1 /\ obj.items[1][1].t = "str"
          /\ obj.items[1][2] = IntObj(1) /\ indent = mp_const_none)
         => out = Emitted(Txt(<<"{">>) \o StringLiteral(obj.items[1][1].s)
                            \o Txt(<<":", " ", "1", "}">>))

\* C16 witness: a key with a letter, a NUL, a quote, a control byte and a
\* byte above 0x7F has been written.
C16_Witness ==
  /\ epc = "dumped"
  /\ indent = mp_const_none
  /\ obj = DictObj(<< <<StrObj(<<97, 0, 34, 31, 233>>), IntObj(1)>> >>)
  /\ out.text = Txt(<<"{", "\"", "a", "\\", "u", "0", "0", "0", "0", "\\", "\"",
                      "\\", "u", "0", "0", "1", "f">>) \o <<233>>
                  \o Txt(<<"\"", ":", " ", "1", "}">>)

\* Key a comes before key b in byte-wise order: at the first index where they
\* differ a has the smaller byte, or a is a proper prefix of b.
KeyLess(a, b) ==
  \/ \E i \in 1..Len(a) :
       /\ i <= Len(b)
       /\ a[i] < b[i]
       /\ \A j \in 1..(i - 1) : a[j] = b[j]
  \/ Len(a) < Len(b) /\ \A j \in 1..Len(a) : a[j] = b[j]

RECURSIVE MembersAscending(_)
\* The members in ascending order of their keys (the keys all differ).
MembersAscending(items) ==
  IF items = <<>> THEN <<>>
  ELSE LET least == CHOOSE i \in 1..Len(items) :
                      \A j \in 1..Len(items) :
                        j # i => KeyLess(items[i][1].s, items[j][1].s)
       IN <<items[least]>>
            \o MembersAscending(SubSeq(items, 1, least - 1)
                                  \o SubSeq(items, least + 1, Len(items)))

\* n spaces.
Spaces(n) == [i \in 1..n |-> 32]

RECURSIVE Layout(_, _, _, _)
\* The text of a value all of whose keys are strings, laid out with indent n
\* (0 for None) at nesting level L, the members of an object sorted or in
\* their own order.
Layout(v, n, L, sorted) ==
  LET lead  == IF n > 0 THEN <<10>> \o Spaces(n * (L + 1)) ELSE <<>>
      sep   == IF n > 0 THEN Txt(<<",">>) ELSE Txt(<<",", " ">>)
      close == IF n > 0 THEN <<10>> \o Spaces(n * L) ELSE <<>>
  IN IF v.t \in {"list", "tuple"}
     THEN IF v.items = <<>> THEN Txt(<<"[", "]">>)
          ELSE Txt(<<"[">>)
                 \o Join([i \in 1..Len(v.items) |->
                            lead \o Layout(v.items[i], n, L + 1, sorted)], sep)
                 \o close \o Txt(<<"]">>)
     ELSE IF v.t = "dict"
     THEN IF v.items = <<>> THEN Txt(<<"{", "}">>)
          ELSE LET ms == IF sorted THEN MembersAscending(v.items) ELSE v.items IN
               Txt(<<"{">>)
                 \o Join([i \in 1..Len(ms) |->
                            lead \o StringLiteral(ms[i][1].s) \o Txt(<<":", " ">>)
                                 \o Layout(ms[i][2], n, L + 1, sorted)], sep)
                 \o close \o Txt(<<"}">>)
     ELSE serialize_obj(v, 0, 0, FALSE, "fwd").text

\* C17: the text dumps returns is the layout that indent alone decides:
\* with None ", " between items, ": " after a key and no newline; with n > 0
\* a newline and n * (L + 1) spaces before each item, "," between items, ": "
\* after a key, a newline and n * L spaces before the closer of a container
\* that is not empty, and [] or {} for an empty one.
C17_LayoutByIndent ==
  (DumpsEnded /\ out.ok) =>
    /\ out.text = Layout(obj, IF indent = mp_const_none THEN 0 ELSE indent.n, 0,
                         sort_keys)
    /\ indent = mp_const_none => \A i \in 1..Len(out.text) : out.text[i] # 10

\* C17 witness: dumps([1, 2], indent=2) has returned the example's text.
C17_Witness ==
  /\ epc = "dumped"
  /\ obj = ListObj(<<IntObj(1), IntObj(2)>>)
  /\ indent = IntObj(2)
  /\ out.text = Txt(<<"[", "\n", " ", " ", "1", ",", "\n", " ", " ", "2", "\n", "]">>)

RECURSIVE MembersReversed(_)
\* The value with the members of every dict in it listed in the reverse
\* order.
MembersReversed(v) ==
  IF v.t \in {"list", "tuple"}
  THEN [v EXCEPT !.items = [i \in 1..Len(v.items) |-> MembersReversed(v.items[i])]]
  ELSE IF v.t = "dict"
  THEN DictObj([i \in 1..Len(v.items) |->
                  <<v.items[Len(v.items) + 1 - i][1],
                    MembersReversed(v.items[Len(v.items) + 1 - i][2])>>])
  ELSE v

\* C18: with sort_keys the text dumps returns has the members of every
\* object, each key with its own value, in ascending byte-wise order of the
\* keys (bytes unsigned, a proper prefix first); it is the text returned for
\* the value with the members stored in another order.
C18_SortedKeys ==
  (DumpsEnded /\ sort_keys /\ out.ok) =>
    /\ out.text = Layout(obj, IndentArg(indent), 0, TRUE)
    /\ out = json_dumps(MembersReversed(obj), indent, TRUE, "fwd")
    /\ out = json_dumps(obj, indent, TRUE, "rev")

\* C18 witness: dumps({"b": 1, "a": 2}, sort_keys=True) has returned the
\* example's text.
C18_Witness ==
  /\ epc = "dumped"
  /\ sort_keys
  /\ indent = mp_const_none
  /\ obj = DictObj(<< <<StrObj(<<98>>), IntObj(1)>>, <<StrObj(<<97>>), IntObj(2)>> >>)
  /\ out.text = Txt(<<"{", "\"", "a", "\"", ":", " ", "2", ",", " ",
                      "\"", "b", "\"", ":", " ", "1", "}">>)

\* The exception types dumps raises on the values of the model.
EncodeErrorKinds ==
  {json_dumps(v, mp_const_none, FALSE, "fwd").exc : v \in EncValues} \ {"none"}

\* C19: the exception a decode raises is of none of the types that dumps
\* raises for a value it cannot represent.
C19_ErrorKindsDisjoint ==
  Raised => exc \notin EncodeErrorKinds

\* C20: every failure of a decode is a JSONDecodeError: a handler for
\* JSONDecodeError catches it.
C20_UniformDecodeError ==
  Raised => IsSubclass(exc, "JSONDecodeError")

\* Call c has returned or raised.
CallEnded(c) ==
  IF c.kind = "loads" THEN c.d.pc \in {"done", "fail"} ELSE c.pc \in {"done", "raised"}

\* The outcome of call c is the one the call has when it runs alone.
SameAsAlone(c) ==
  IF c.kind = "loads" THEN Outcome(c.d) = Outcome(json_loads(c.d.input))
  ELSE c.out = json_dumps(c.obj, c.arg, c.sort_keys, "fwd")

\* C21: under every interleaving of the steps of the concurrent calls, a call
\* that has ended has the value, the text or the error it has when run alone.
C21_CallsIndependent ==
  \A i \in DOMAIN calls : CallEnded(calls[i]) => SameAsAlone(calls[i])

\* C21 witness: two json_loads calls on objects have both returned, as
\* calls of a concurrent run.
C21_Witness ==
  /\ DOMAIN calls = CallIds
  /\ calls[1].kind = "loads" /\ calls[1].d.pc = "done"
  /\ calls[1].d.result = DictObj(<< <<StrObj(Txt(<<"a">>)), IntObj(1)>> >>)
  /\ calls[2].kind = "loads" /\ calls[2].d.pc = "done"
  /\ calls[2].d.result =
       DictObj(<< <<StrObj(Txt(<<"b">>)), ListObj(<<IntObj(2)>>)>> >>)

\* Container c holds the object child: as its last item when c is a list, as
\* the value of one of its members when c is a dict.
Holding(c, child) ==
  IF c.t = "list" THEN c.items # <<>> /\ c.items[Len(c.items)] = child
  ELSE \E i \in 1..Len(c.items) : c.items[i][2] = child

\* The stack holds the open containers that enclose the current one, outermost
\* first: the first container created is at the bottom, each entry holds the
\* next one, the last entry holds the current container, and no container is
\* there twice. In a text without string literals the number of entries is
\* the openers less the closers read so far, less one.
StackShape ==
  (pc = "main" /\ stack_top # MP_OBJ_NULL) =>
    LET path == Append(stack, stack_top) IN
    /\ path[1] = Ref(1)
    /\ \A k \in 1..Len(stack) : Holding(heap[path[k].id], path[k + 1])
    /\ \A j, k \in 1..Len(path) : path[j] = path[k] => j = k
    /\ (\A i \in 1..Len(input) : input[i] # Ch["\""]) =>
         Len(stack) = Depth(input, pos - 1) - 1

\* What a step does to the stack: an opener read inside a container pushes
\* the current container, a closer of a container that is not the top-level
\* one pops one entry, any other step leaves the stack as it is, and at the
\* return the stack is empty.
StackStep ==
  /\ (pc = "main" /\ pc' # "fail") =>
       IF IsOpener(cur) /\ stack_top # MP_OBJ_NULL
         THEN stack' = Append(stack, stack_top) /\ stack_top' = Ref(Len(heap) + 1)
       ELSE IF IsCloser(cur) /\ stack # <<>>
         THEN Len(stack') = Len(stack) - 1 /\ stack = Append(stack', stack_top')
       ELSE stack' = stack
  /\ pc' = "done" => stack' = <<>>

\* C22: in every state with a container open the stack holds exactly the open
\* containers that enclose the current one, outermost first; an opener inside
\* a container pushes one entry, a closer of an inner container pops one, and
\* the stack is empty at a successful return.
C22_StackIsNesting ==
  [][StackShape /\ StackShape' /\ StackStep]_vars

\* C22 witness: four containers are open, three of them on the stack.
C22_Witness ==
  /\ pc = "main"
  /\ stack = <<Ref(1), Ref(2), Ref(3)>>
  /\ stack_top = Ref(4)
  /\ heap[2].t = "dict"

\* C23: json_dump appends to the stream exactly the text json_dumps returns
\* for the same arguments; when json_dumps raises, json_dump raises the same
\* exception and the stream is as it was.
C23_DumpIsDumps ==
  [][epc' = "written" =>
       IF out.ok THEN dumpres' = "none" /\ sink' = sink \o out.text
       ELSE dumpres' = out.exc /\ sink' = sink]_vars

\* C23 witness: json_dump has written the sorted, indented object after the
\* bytes the stream held.
C23_Witness ==
  /\ epc = "written"
  /\ dumpres = "none"
  /\ obj = DictObj(<< <<StrObj(Txt(<<"b">>)), IntObj(1)>>,
                      <<StrObj(Txt(<<"a">>)), IntObj(2)>> >>)
  /\ sort_keys
  /\ sink = Txt(<<"1", "\n", "{", "\n", " ", " ", "\"", "a", "\"", ":", " ", "2", ",",
                  "\n", " ", " ", "\"", "b", "\"", ":", " ", "1", "\n", "}">>)

\* The current container is a list.
InArray == stack_top # MP_OBJ_NULL /\ stack_top.t = "ref" /\ heap[stack_top.id].t = "list"

\* The token read last was a closer.
JustClosed == pos > 1 /\ pos - 1 <= Len(input) /\ IsCloser(input[pos - 1])

\* C24: while a decode runs, stack_key is empty whenever the current
\* container is a list, no container is open, or a container has just been
\* closed.
C24_KeySlotScoped ==
  (pc \in {"main", "success"}
     /\ (InArray \/ stack_top = MP_OBJ_NULL \/ JustClosed))
    => stack_key = MP_OBJ_NULL

\* C25: on a decode that returns a value, every member was stored with a key
\* read while the object it was stored into was the current container.
C25_KeyPairedInOwnObject ==
  Returned => ~mispaired

\* C26: a decode that returns a value has read every byte of the input: the
\* end-of-input it stopped at is the source having no byte left, never a
\* 0x00 byte with bytes after it.
C26_EndOfInputIsNoByte ==
  Returned => pos > Len(input)

\* C27: a value returned by a decode is one that dumps accepts, with every
\* indent and either sort_keys.
C27_DecodedValueEncodes ==
  Returned =>
    \A a \in IndentArgs : \A sk \in BOOLEAN : \A slots \in {"fwd", "rev"} :
      json_dumps(result, a, sk, slots).ok

\* The value of the int object o is zero or negative.
NonPositive(o) == HighPart(o) < 0 \/ (HighPart(o) = 0 /\ o.n <= 0)

\* C29: a json_dumps call given an integer indent that is zero or negative
\* ends as the call with indent None does, with the same compact text or the
\* same error, and its text has no newline of indentation: it is as long as
\* the compact text.
C29_NonPositiveIndentCompact ==
  \A i \in DOMAIN calls :
    LET c == calls[i] IN
    (c.kind = "dumps" /\ CallEnded(c) /\ c.arg # mp_const_none /\ NonPositive(c.arg))
      => /\ c.out = json_dumps(c.obj, mp_const_none, c.sort_keys, "fwd")
         /\ Len(c.out.text)
              = Len(json_dumps(c.obj, mp_const_none, c.sort_keys, "fwd").text)

\* The bytes of the input the cursor of the call has moved past.
Consumed(c) ==
  (IF c.d.pos <= Len(c.d.input) THEN c.d.pos ELSE Len(c.d.input) + 1) - 1

\* C28: every iteration of the main loop, the string loop, the number loop
\* and the trailing-whitespace loop moves the cursor past at least one byte
\* of the input or leaves its loop, and the call ends: it returns a value or
\* raises.
C28_DecodeTerminates ==
  /\ [](\A i \in DOMAIN calls :
          ~CallEnded(calls[i]) =>
            \/ Consumed(LoopStep(calls[i])) > Consumed(calls[i])
            \/ LoopOf(LoopStep(calls[i])) # LoopOf(calls[i]))
  /\ <>(\A i \in DOMAIN calls : CallEnded(calls[i]))

\* C28 witness: the input ended inside a \u escape and the call has raised.
C28_Witness ==
  /\ DOMAIN calls = {1}
  /\ calls[1].d.input = Txt(<<"\"", "\\", "u", "0", "0", "4">>)
  /\ calls[1].d.pc = "fail"
  /\ calls[1].d.pos > Len(calls[1].d.input)

\* C30: the text dumps returns for a string, for an array of a string or for
\* an object with a string as its key decodes to that value: every byte of
\* the string, escaped or not by escape_string, is read back as itself.
C30_EscapeUnescapeInverse ==
  (epc = "loaded" /\ obj \in EncStringValues) => (Returned /\ result = obj)

\* C30 witness: the object whose key holds a letter, a zero byte, a quote, the
\* control byte 0x1F and a byte above 0x7F has been encoded and decoded back.
C30_Witness ==
  /\ epc = "loaded"
  /\ obj = DictObj(<< <<StrObj(<<97, 0, 34, 31, 233>>), IntObj(1)>> >>)
  /\ indent = mp_const_none
  /\ out.text = Txt(<<"{", "\"", "a", "\\", "u", "0", "0", "0", "0", "\\", "\"",
                      "\\", "u", "0", "0", "1", "f">>) \o <<233>>
                   \o Txt(<<"\"", ":", " ", "1", "}">>)
  /\ Returned
  /\ result = obj

====
